---- MODULE Spec2Model ----
(***************************************************************************)
(* Per-cluster alert queueing and fan-out pipeline of the xiaozhi server:  *)
(* ClusterAlertQueue (core/services/cluster_alert_queue.py), the webhook   *)
(* ingestion handler (core/api/alert_handler.py), the polling consumer and *)
(* the per-alert handler of ServerMCPClient (server_mcp/mcp_client.py) and *)
(* the background jobs of the agent MCP server (server_mcp/agent_mcp.py).  *)
(***************************************************************************)
EXTENDS Integers, Sequences, FiniteSets, TLC

VARIABLES
    alert_queues,    \* ClusterAlertQueue.alert_queues: cluster id -> deque
    stats,           \* ClusterAlertQueue.stats
    clock,           \* number of webhook requests received (datetime.now())
    last_call,       \* the last produce_alert / consume_alerts call and its return value
    appended,        \* history: payloads appended by produce_alert, in order
    evicted,         \* history: payloads dropped by the deque on overflow
    returned,        \* history: <<client, cluster id, payload>> of every consume hit
    queue_status,    \* the dict the last get_queue_status call returned
    cluster_map,     \* ServerMCPClient.cluster_map, as the list of its keys
    shutdown_evt,    \* ServerMCPClient._shutdown_evt
    poll_pc,         \* position of _alert_polling_worker of each client
    cluster_ids,     \* the list the running polling cycle iterates over
    poll_idx,        \* index of the next key of the running cycle
    running,         \* the coroutine that holds the asyncio event loop
    notifications,   \* _send_direct_notification calls, by the alert they are about
    jobs,            \* background alert-analysis threads, by the alert's timestamp
    insp,            \* background cluster-inspection threads, in start order
    rb,              \* background rollback-then-verify threads, in start order
    connections,     \* ws_server.active_connections: the handlers and their fields
    push,            \* the push request being handled by PushHandler.handle_post
    pushes,          \* number of push requests received
    alert_context_cache, \* ServerMCPClient._alert_context_cache
    wall,            \* time.time(), in seconds
    cache_read,      \* what the last get_cached_alert_context call returned
    extracted,       \* the last direct _extract_cluster_id call: its payload and two results
    life             \* of each client: its task handles, events and lifecycle calls

qvars == <<alert_queues, stats, clock, last_call, appended, evicted, returned, queue_status>>
cvars == <<cluster_map, shutdown_evt, poll_pc, cluster_ids, poll_idx, running>>
jvars == <<notifications, jobs>>
pvars == <<connections, push, pushes>>
avars == <<alert_context_cache, wall, cache_read>>
ovars == <<rb, pvars, avars, extracted, life>>
vars == <<alert_queues, stats, clock, last_call, appended, evicted, returned,
          queue_status, cluster_map, shutdown_evt, poll_pc, cluster_ids, poll_idx, running,
          notifications, jobs, insp, rb, connections, push, pushes,
          alert_context_cache, wall, cache_read, extracted, life>>

----------------------------------------------------------------------------
(* Bounds *)

\* capacity of each per-cluster deque (1000 in the program)
max_queue_size == 2
\* number of webhook requests the model receives
MaxRequests == 3
\* number of inspection jobs started
MaxInspections == 2

\* rollback tool calls in a behaviour
MaxRollbacks == 2

\* push requests in a behaviour
MaxPushes == 2

\* '#'-separated parts of a generated objId
MaxParts == 3

----------------------------------------------------------------------------
(* Python strings as tuples of characters *)

RECURSIVE StartsWith(_, _)
\* str.startswith
StartsWith(s, pre) ==
    IF pre = <<>> THEN TRUE
    ELSE IF s = <<>> THEN FALSE
    ELSE Head(s) = Head(pre) /\ StartsWith(Tail(s), Tail(pre))

RECURSIVE Contains(_, _)
\* the substring test "sub in s"
Contains(s, sub) ==
    IF StartsWith(s, sub) THEN TRUE
    ELSE IF s = <<>> THEN FALSE
    ELSE Contains(Tail(s), sub)

RECURSIVE SplitFrom(_, _, _)
SplitFrom(s, sep, cur) ==
    IF s = <<>> THEN <<cur>>
    ELSE IF Head(s) = sep THEN <<cur>> \o SplitFrom(Tail(s), sep, <<>>)
    ELSE SplitFrom(Tail(s), sep, Append(cur, Head(s)))

\* str.split(sep) for a one-character separator
Split(s, sep) == SplitFrom(s, sep, <<>>)

ClsPrefix == <<"c", "l", "s", "-">>
HashCls == <<"#">> \o ClsPrefix

\* the falsy result of a failed extraction (None)
None == <<>>

----------------------------------------------------------------------------
(* JSON values of a webhook request *)

Dict(f) == [t |-> "dict", f |-> f]
Str(s) == [t |-> "str", s |-> s]
Null == [t |-> "null"]
IntVal == [t |-> "int"]
EmptyDict == Dict(<<>>)

IsDict(v) == v.t = "dict"

\* dict.get(key, default)
Get(d, key, default) == IF key \in DOMAIN d.f THEN d.f[key] ELSE default

ClsA == ClsPrefix \o <<"a">>
ClsB == ClsPrefix \o <<"b">>

\* objId values: "r#cls-a#x", "r#cls-b", "cls-a#x", "r#x"
ObjA == <<"r", "#">> \o ClsA \o <<"#", "x">>
ObjB == <<"r", "#">> \o ClsB
ObjNoHash == ClsA \o <<"#", "x">>
ObjPlain == <<"r", "#", "x">>

Policy == Dict([policyName |-> Str(<<"p">>)])

Body(objId, policy) ==
    Dict([alertId |-> Str(<<"i">>),
          alarmObjInfo |-> Dict([dimensions |-> Dict([objId |-> objId])]),
          alarmPolicyInfo |-> policy])

\* the request bodies the webhook receives, by name
Shapes == {"okA", "okB", "nullPolicyA", "noHash", "plain",
           "intObjId", "nullObjInfo", "noDimensions", "emptyBody", "textBody"}

RequestBody(shape) ==
    CASE shape = "okA" -> Body(Str(ObjA), Policy)
      [] shape = "okB" -> Body(Str(ObjB), Policy)
      [] shape = "nullPolicyA" -> Body(Str(ObjA), Null)
      [] shape = "noHash" -> Body(Str(ObjNoHash), Policy)
      [] shape = "plain" -> Body(Str(ObjPlain), Policy)
      [] shape = "intObjId" -> Body(IntVal, Policy)
      [] shape = "nullObjInfo" -> Dict([alertId |-> Str(<<"i">>), alarmObjInfo |-> Null])
      [] shape = "noDimensions" -> Dict([alarmObjInfo |-> EmptyDict])
      [] shape = "emptyBody" -> EmptyDict
      [] shape = "textBody" -> Str(<<"t">>)

\* alert_data of receive_alert: the request recorded with its arrival time
AlertData(shape, now) == [timestamp |-> now, shape |-> shape]

\* the alert_data dict as produce_alert sees it; a payload of shape "objId"
\* carries the objId string of its request body
WebhookDict(webhook_data) ==
    Dict([request_body |->
            IF webhook_data.shape = "objId"
            THEN Body(Str(webhook_data.objId), Policy)
            ELSE RequestBody(webhook_data.shape)])

\* the parts an objId is made of: "", "cls", "cls-a", "cls-b"
Tokens == {<<>>, <<"c", "l", "s">>, ClsA, ClsB}

RECURSIVE Join(_, _)
\* sep.join(parts)
Join(parts, sep) ==
    IF Len(parts) = 0 THEN <<>>
    ELSE IF Len(parts) = 1 THEN parts[1]
    ELSE parts[1] \o <<sep>> \o Join(Tail(parts), sep)

\* the objId strings of up to MaxParts parts
ObjIds == {Join(parts, "#") : parts \in UNION {[1..n -> Tokens] : n \in 1..MaxParts}}

\* the payloads _extract_cluster_id is called with
Payloads ==
    {AlertData(shape, 0) : shape \in Shapes}
        \cup {[timestamp |-> 0, shape |-> "objId", objId |-> s] : s \in ObjIds}

----------------------------------------------------------------------------
(* ClusterAlertQueue *)

\* the last part of obj_id.split('#') that starts with 'cls-'
LastClsPart(parts) ==
    LET hits == {i \in 1..Len(parts) : StartsWith(parts[i], ClsPrefix)} IN
    IF hits = {} THEN None
    ELSE parts[CHOOSE i \in hits : \A j \in hits : i >= j]

\* the first part of obj_id.split('#') that starts with 'cls-'
FirstClsPart(parts) ==
    LET hits == {i \in 1..Len(parts) : StartsWith(parts[i], ClsPrefix)} IN
    IF hits = {} THEN None
    ELSE parts[CHOOSE i \in hits : \A j \in hits : i <= j]

\* _extract_cluster_id: every exception is caught and gives None
extract_cluster_id(webhook_data) ==
    LET request_body == Get(WebhookDict(webhook_data), "request_body", EmptyDict) IN
    IF ~IsDict(request_body) THEN None
    ELSE LET obj_info == Get(request_body, "alarmObjInfo", EmptyDict) IN
    IF ~IsDict(obj_info) THEN None
    ELSE LET dimensions == Get(obj_info, "dimensions", EmptyDict) IN
    IF ~IsDict(dimensions) THEN None
    ELSE LET obj_id == Get(dimensions, "objId", Str(<<>>)) IN
    IF obj_id.t # "str" THEN None
    ELSE IF Contains(obj_id.s, HashCls) THEN FirstClsPart(Split(obj_id.s, "#"))
    ELSE None

\* an extraction that registers the key it has found
extract_call_registers(webhook_data) ==
    /\ extracted' = [webhook_data |-> webhook_data,
                     first |-> extract_cluster_id(webhook_data),
                     second |-> extract_cluster_id(webhook_data)]
    /\ stats' = [stats EXCEPT !.clusters_with_alerts =
                     IF extract_cluster_id(webhook_data) = None THEN @
                     ELSE @ \cup {extract_cluster_id(webhook_data)}]
    /\ UNCHANGED <<alert_queues, clock, last_call, appended, evicted, returned, queue_status,
                   cvars, jvars, insp, rb, pvars, avars, life>>

\* two calls of _extract_cluster_id with the same payload, one after the other
extract_call(webhook_data) ==
    /\ extracted' = [webhook_data |-> webhook_data,
                     first |-> extract_cluster_id(webhook_data),
                     second |-> extract_cluster_id(webhook_data)]
    /\ UNCHANGED <<qvars, cvars, jvars, insp, rb, pvars, avars, life>>

\* a full deque that rejects the new element instead of dropping the oldest
deque_append_reject(q, x) ==
    IF Len(q) >= max_queue_size THEN q ELSE Append(q, x)

\* deque(maxlen=max_queue_size).append
deque_append(q, x) ==
    IF Len(q) >= max_queue_size THEN Append(Tail(q), x) ELSE Append(q, x)

\* the elements of a sequence
Range(q) == {q[i] : i \in 1..Len(q)}

\* alert_queues[cluster_id] of the defaultdict: a missing key gets an empty deque
queue_of(queues, cluster_id) ==
    IF cluster_id \in DOMAIN queues THEN queues[cluster_id] ELSE <<>>

\* the log-line lookups after the append (lines 71-72) raise when
\* alarmPolicyInfo is present and is not a dict
log_fields_raise(webhook_data) ==
    LET request_body == Get(WebhookDict(webhook_data), "request_body", EmptyDict) IN
    ~IsDict(Get(request_body, "alarmPolicyInfo", EmptyDict))

\* produce_alert that counts the alert before it tries to route it
produce_alert_counts_first(webhook_data) ==
    LET cluster_id == extract_cluster_id(webhook_data)
        q == queue_of(alert_queues, cluster_id)
    IN
    /\ stats' = [stats EXCEPT
                   !.total_produced = @ + 1,
                   !.clusters_with_alerts =
                       IF cluster_id = None THEN @ ELSE @ \cup {cluster_id}]
    /\ IF cluster_id = None
       THEN /\ last_call' = [op |-> "produce_alert", key |-> None, ret |-> FALSE]
            /\ UNCHANGED <<alert_queues, appended, evicted>>
       ELSE /\ alert_queues' =
                   [k \in DOMAIN alert_queues \cup {cluster_id} |->
                       IF k = cluster_id THEN deque_append(q, webhook_data)
                       ELSE alert_queues[k]]
            /\ appended' = Append(appended, webhook_data)
            /\ evicted' = evicted \cup (Range(Append(q, webhook_data)) \ Range(deque_append(q, webhook_data)))
            /\ last_call' = [op |-> "produce_alert", key |-> cluster_id,
                             ret |-> ~log_fields_raise(webhook_data)]

\* produce_alert that keeps only the key of the last alert as known
produce_alert_forgets_keys(webhook_data) ==
    LET cluster_id == extract_cluster_id(webhook_data) IN
    IF cluster_id = None
    THEN /\ last_call' = [op |-> "produce_alert", key |-> None, ret |-> FALSE]
         /\ UNCHANGED <<alert_queues, stats, appended, evicted>>
    ELSE LET q == queue_of(alert_queues, cluster_id) IN
         /\ alert_queues' =
                [k \in DOMAIN alert_queues \cup {cluster_id} |->
                    IF k = cluster_id THEN deque_append(q, webhook_data)
                    ELSE alert_queues[k]]
         /\ stats' = [stats EXCEPT
                        !.total_produced = @ + 1,
                        !.clusters_with_alerts = {cluster_id}]
         /\ appended' = Append(appended, webhook_data)
         /\ evicted' = evicted \cup (Range(Append(q, webhook_data)) \ Range(deque_append(q, webhook_data)))
         /\ last_call' = [op |-> "produce_alert", key |-> cluster_id,
                          ret |-> ~log_fields_raise(webhook_data)]

\* the body of produce_alert, called by receive_alert on the event loop
produce_alert(webhook_data) ==
    LET cluster_id == extract_cluster_id(webhook_data) IN
    IF cluster_id = None
    THEN /\ last_call' = [op |-> "produce_alert", key |-> None, ret |-> FALSE]
         /\ UNCHANGED <<alert_queues, stats, appended, evicted>>
    ELSE LET q == queue_of(alert_queues, cluster_id) IN
         /\ alert_queues' =
                [k \in DOMAIN alert_queues \cup {cluster_id} |->
                    IF k = cluster_id THEN deque_append(q, webhook_data)
                    ELSE alert_queues[k]]
         /\ stats' = [stats EXCEPT
                        !.total_produced = @ + 1,
                        !.clusters_with_alerts = @ \cup {cluster_id}]
         /\ appended' = Append(appended, webhook_data)
         /\ evicted' = evicted \cup (Range(Append(q, webhook_data)) \ Range(deque_append(q, webhook_data)))
         /\ last_call' = [op |-> "produce_alert", key |-> cluster_id,
                          ret |-> ~log_fields_raise(webhook_data)]

\* the test of line 121: the key has a deque and the deque is not empty
has_alert(queues, cluster_id) ==
    cluster_id \in DOMAIN queues /\ queues[cluster_id] # <<>>

\* deque.pop in place of popleft: takes the newest element
popleft_newest(q) == [value |-> q[Len(q)], rest |-> SubSeq(q, 1, Len(q) - 1)]

\* q[0] in place of popleft: reads the oldest element and leaves it queued
popleft_peek(q) == [value |-> Head(q), rest |-> q]

\* deque.popleft: the value it returns and the deque it leaves
popleft(q) == [value |-> Head(q), rest |-> Tail(q)]

\* consume_alerts that serves the first deque that has an alert, whatever the key
consume_alerts_any_queue(c, cluster_id) ==
    LET full == {k \in DOMAIN alert_queues : alert_queues[k] # <<>>} IN
    IF full # {}
    THEN LET k == CHOOSE k \in full : \A k2 \in full : Len(alert_queues[k]) >= Len(alert_queues[k2])
             raw_alert == popleft(alert_queues[k]).value IN
         /\ alert_queues' = [alert_queues EXCEPT ![k] = popleft(@).rest]
         /\ stats' = [stats EXCEPT !.total_consumed = @ + 1]
         /\ returned' = Append(returned, <<c, cluster_id, raw_alert>>)
         /\ last_call' = [op |-> "consume_alerts", key |-> cluster_id, ret |-> TRUE]
    ELSE /\ last_call' = [op |-> "consume_alerts", key |-> cluster_id, ret |-> FALSE]
         /\ UNCHANGED <<alert_queues, stats, returned>>

\* consume_alerts that waits for an alert instead of returning None
consume_alerts_blocking(c, cluster_id) ==
    /\ has_alert(alert_queues, cluster_id)
    /\ LET raw_alert == popleft(alert_queues[cluster_id]).value IN
       /\ alert_queues' = [alert_queues EXCEPT ![cluster_id] = popleft(@).rest]
       /\ stats' = [stats EXCEPT !.total_consumed = @ + 1]
       /\ returned' = Append(returned, <<c, cluster_id, raw_alert>>)
       /\ last_call' = [op |-> "consume_alerts", key |-> cluster_id, ret |-> TRUE]

\* consume_alerts whose counter update is lost: it writes back the value
\* another call had read
consume_alerts_lost_update(c, cluster_id) ==
    IF has_alert(alert_queues, cluster_id)
    THEN LET raw_alert == popleft(alert_queues[cluster_id]).value IN
         /\ alert_queues' = [alert_queues EXCEPT ![cluster_id] = popleft(@).rest]
         /\ stats' = [stats EXCEPT !.total_consumed = IF @ = 0 THEN 1 ELSE @]
         /\ returned' = Append(returned, <<c, cluster_id, raw_alert>>)
         /\ last_call' = [op |-> "consume_alerts", key |-> cluster_id, ret |-> TRUE]
    ELSE /\ last_call' = [op |-> "consume_alerts", key |-> cluster_id, ret |-> FALSE]
         /\ UNCHANGED <<alert_queues, stats, returned>>

\* consume_alerts that deletes the deque it has just drained
consume_alerts_drops_empty(c, cluster_id) ==
    IF has_alert(alert_queues, cluster_id)
    THEN LET raw_alert == popleft(alert_queues[cluster_id]).value
             rest == popleft(alert_queues[cluster_id]).rest IN
         /\ alert_queues' =
                [k \in DOMAIN alert_queues \ (IF rest = <<>> THEN {cluster_id} ELSE {}) |->
                    IF k = cluster_id THEN rest ELSE alert_queues[k]]
         /\ stats' = [stats EXCEPT !.total_consumed = @ + 1]
         /\ returned' = Append(returned, <<c, cluster_id, raw_alert>>)
         /\ last_call' = [op |-> "consume_alerts", key |-> cluster_id, ret |-> TRUE]
    ELSE /\ last_call' = [op |-> "consume_alerts", key |-> cluster_id, ret |-> FALSE]
         /\ UNCHANGED <<alert_queues, stats, returned>>

\* consume_alerts that counts every call, also the ones that find nothing
consume_alerts_counts_misses(c, cluster_id) ==
    IF has_alert(alert_queues, cluster_id)
    THEN LET raw_alert == popleft(alert_queues[cluster_id]).value IN
         /\ alert_queues' = [alert_queues EXCEPT ![cluster_id] = popleft(@).rest]
         /\ stats' = [stats EXCEPT !.total_consumed = @ + 1]
         /\ returned' = Append(returned, <<c, cluster_id, raw_alert>>)
         /\ last_call' = [op |-> "consume_alerts", key |-> cluster_id, ret |-> TRUE]
    ELSE /\ last_call' = [op |-> "consume_alerts", key |-> cluster_id, ret |-> FALSE]
         /\ stats' = [stats EXCEPT !.total_consumed = @ + 1]
         /\ UNCHANGED <<alert_queues, returned>>

\* consume_alerts that indexes the defaultdict without the membership test:
\* a miss on an unknown key leaves an empty deque under it
consume_alerts_creates_queue(c, cluster_id) ==
    IF has_alert(alert_queues, cluster_id)
    THEN LET raw_alert == popleft(alert_queues[cluster_id]).value IN
         /\ alert_queues' = [alert_queues EXCEPT ![cluster_id] = popleft(@).rest]
         /\ stats' = [stats EXCEPT !.total_consumed = @ + 1]
         /\ returned' = Append(returned, <<c, cluster_id, raw_alert>>)
         /\ last_call' = [op |-> "consume_alerts", key |-> cluster_id, ret |-> TRUE]
    ELSE /\ last_call' = [op |-> "consume_alerts", key |-> cluster_id, ret |-> FALSE]
         /\ alert_queues' = [k \in DOMAIN alert_queues \cup {cluster_id} |->
                                queue_of(alert_queues, k)]
         /\ UNCHANGED <<stats, returned>>

\* consume_alerts, called by client c
consume_alerts(c, cluster_id) ==
    IF has_alert(alert_queues, cluster_id)
    THEN LET raw_alert == popleft(alert_queues[cluster_id]).value IN
         /\ alert_queues' = [alert_queues EXCEPT ![cluster_id] = popleft(@).rest]
         /\ stats' = [stats EXCEPT !.total_consumed = @ + 1]
         /\ returned' = Append(returned, <<c, cluster_id, raw_alert>>)
         /\ last_call' = [op |-> "consume_alerts", key |-> cluster_id, ret |-> TRUE]
    ELSE /\ last_call' = [op |-> "consume_alerts", key |-> cluster_id, ret |-> FALSE]
         /\ UNCHANGED <<alert_queues, stats, returned>>

\* get_queue_size: the length of the deque of a key, 0 for a key without one
get_queue_size(queues, cluster_id) == Len(queue_of(queues, cluster_id))

\* get_all_cluster_ids: the keys of alert_queues
get_all_cluster_ids(queues) == DOMAIN queues

RECURSIVE queue_status_loop(_, _, _)
\* the for loop of get_queue_status over alert_queues.items(): the entry of
\* each key and the running total
queue_status_loop(queues, todo, acc) ==
    IF todo = {} THEN acc
    ELSE LET cluster_id == CHOOSE k \in todo : TRUE
             queue_size == Len(queues[cluster_id])
         IN queue_status_loop(queues, todo \ {cluster_id},
                [cluster_status |->
                    [k \in DOMAIN acc.cluster_status \cup {cluster_id} |->
                        IF k = cluster_id
                        THEN [queue_size |-> queue_size, max_size |-> max_queue_size]
                        ELSE acc.cluster_status[k]],
                 total_alerts |-> acc.total_alerts + queue_size])

\* a status whose total counts the queues that hold alerts, not the alerts
queue_status_counts_queues(queues, st) ==
    LET loop == queue_status_loop(queues, DOMAIN queues,
                                  [cluster_status |-> <<>>, total_alerts |-> 0])
    IN [total_alerts_in_queues |-> Cardinality({k \in DOMAIN queues : queues[k] # <<>>}),
        cluster_count |-> Cardinality(DOMAIN queues),
        cluster_status |-> loop.cluster_status,
        stats |-> [total_produced |-> st.total_produced,
                   total_consumed |-> st.total_consumed,
                   clusters_with_alerts |-> Cardinality(st.clusters_with_alerts)]]

\* the dict get_queue_status builds from the registry (without runtime_seconds)
queue_status_of(queues, st) ==
    LET loop == queue_status_loop(queues, DOMAIN queues,
                                  [cluster_status |-> <<>>, total_alerts |-> 0])
    IN [total_alerts_in_queues |-> loop.total_alerts,
        cluster_count |-> Cardinality(DOMAIN queues),
        cluster_status |-> loop.cluster_status,
        stats |-> [total_produced |-> st.total_produced,
                   total_consumed |-> st.total_consumed,
                   clusters_with_alerts |-> Cardinality(st.clusters_with_alerts)]]

\* get_queue_status, a synchronous call made on the event loop
get_queue_status ==
    /\ running = "none"
    /\ queue_status' = queue_status_of(alert_queues, stats)
    /\ UNCHANGED <<alert_queues, stats, clock, last_call, appended, evicted, returned,
                   cvars, jvars, insp, ovars>>

----------------------------------------------------------------------------
(* AlertHandler.receive_alert: the webhook request handler *)

\* "request_body and isinstance(request_body, dict)" of line 89
is_json_object(request_body) == IsDict(request_body) /\ DOMAIN request_body.f # {}

receive_alert(shape) ==
    /\ running = "none"
    /\ clock < MaxRequests
    /\ clock' = clock + 1
    /\ LET alert_data == AlertData(shape, clock + 1) IN
       IF is_json_object(RequestBody(shape))
       THEN produce_alert(alert_data)
       ELSE UNCHANGED <<alert_queues, stats, last_call, appended, evicted>>
    /\ UNCHANGED <<returned, queue_status, cvars, jvars, insp, ovars>>

----------------------------------------------------------------------------
(* ServerMCPClient: the polling consumer and the per-alert handler *)

Clients == {"c1", "c2"}

\* ServerMCPClient.device_id ("" when the client has no device bound)
device_id(c) == IF c = "c1" THEN "d1" ELSE ""

\* the cluster ids the cloud API lists for the credentials of the client
ClusterList(c) == IF c = "c1" THEN <<ClsA, ClsB>> ELSE <<ClsA>>

\* _send_direct_notification(device, message, kind), logged under the alert
send_direct_notification(log, about, device, message, kind) ==
    [t \in DOMAIN log \cup {about} |->
        IF t = about
        THEN Append(IF about \in DOMAIN log THEN log[about] ELSE <<>>,
                    [device |-> device, kind |-> kind, message |-> message])
        ELSE log[t]]

\* _auto_fetch_cluster_list: rebuilds cluster_map from the listed clusters
auto_fetch_cluster_list(c) ==
    /\ running = "none"
    /\ cluster_map[c] = <<>>
    /\ cluster_map' = [cluster_map EXCEPT ![c] = ClusterList(c)]
    /\ UNCHANGED <<qvars, shutdown_evt, poll_pc, cluster_ids, poll_idx, running, jvars, insp, ovars>>

\* _delayed_start_alert_polling, after its 5 second sleep
delayed_start_alert_polling(c) ==
    /\ running = "none"
    /\ poll_pc[c] = "not_started"
    /\ poll_pc' = [poll_pc EXCEPT ![c] = IF shutdown_evt[c] THEN "never_started" ELSE "waiting"]
    /\ UNCHANGED <<qvars, cluster_map, shutdown_evt, cluster_ids, poll_idx, running, jvars, insp, ovars>>

\* the lookups of lines 295-298, made before the acknowledgement is sent,
\* raise when request_body is truthy and it, or its alarmPolicyInfo, has no .get
ack_fields_raise(raw_alert) ==
    LET request_body == Get(WebhookDict(raw_alert), "request_body", EmptyDict) IN
    IF IsDict(request_body)
    THEN /\ DOMAIN request_body.f # {}
         /\ ~IsDict(Get(request_body, "alarmPolicyInfo", EmptyDict))
    ELSE request_body.t = "str" /\ request_body.s # <<>>

\* the notifications about alert t sent so far
log_of(log, t) == IF t \in DOMAIN log THEN log[t] ELSE <<>>

\* a handler that starts the thread first and acknowledges afterwards
handle_cluster_alert_thread_first(c, cluster_id, raw_alert, thread_starts) ==
    /\ notifications' =
          IF device_id(c) # "" /\ ~ack_fields_raise(raw_alert)
          THEN send_direct_notification(notifications, raw_alert.timestamp,
                                        device_id(c), <<"new alert">>, "info")
          ELSE notifications
    /\ jobs' = [t \in DOMAIN jobs \cup {raw_alert.timestamp} |->
                  IF t = raw_alert.timestamp
                  THEN [client |-> c, cluster_id |-> cluster_id,
                        pc |-> IF thread_starts THEN "started" ELSE "start_failed",
                        log_at_start |-> Len(log_of(notifications, raw_alert.timestamp)),
                        attempts |-> 0, raised |-> 0, delays |-> 0]
                  ELSE jobs[t]]

\* a handler that waits until the threads started before are over
handle_cluster_alert_joins(c, cluster_id, raw_alert, thread_starts) ==
    /\ \A t \in DOMAIN jobs : jobs[t].pc # "started"
    /\ notifications' =
          IF device_id(c) # "" /\ ~ack_fields_raise(raw_alert)
          THEN send_direct_notification(notifications, raw_alert.timestamp,
                                        device_id(c), <<"new alert">>, "info")
          ELSE notifications
    /\ jobs' = [t \in DOMAIN jobs \cup {raw_alert.timestamp} |->
                  IF t = raw_alert.timestamp
                  THEN [client |-> c, cluster_id |-> cluster_id,
                        pc |-> IF thread_starts THEN "started" ELSE "start_failed",
                        log_at_start |-> Len(log_of(notifications', raw_alert.timestamp)),
                        attempts |-> 0, raised |-> 0, delays |-> 0]
                  ELSE jobs[t]]

\* _handle_cluster_alert: the acknowledgement, then the background thread.
\* The inner try drops the acknowledgement when its lookups raise; the outer
\* try catches a Thread.start() that raises (thread_starts = FALSE).
handle_cluster_alert(c, cluster_id, raw_alert, thread_starts) ==
    /\ notifications' =
          IF device_id(c) # "" /\ ~ack_fields_raise(raw_alert)
          THEN send_direct_notification(notifications, raw_alert.timestamp,
                                        device_id(c), <<"new alert">>, "info")
          ELSE notifications
    /\ jobs' = [t \in DOMAIN jobs \cup {raw_alert.timestamp} |->
                  IF t = raw_alert.timestamp
                  THEN [client |-> c, cluster_id |-> cluster_id,
                        pc |-> IF thread_starts THEN "started" ELSE "start_failed",
                        log_at_start |-> Len(log_of(notifications', raw_alert.timestamp)),
                        attempts |-> 0, raised |-> 0, delays |-> 0]
                  ELSE jobs[t]]

\* a polling loop whose while test does not look at the shutdown event
poll_begin_ignores_shutdown(c) ==
    /\ running = "none"
    /\ poll_pc[c] = "waiting"
    /\ IF cluster_map[c] = <<>>
       THEN UNCHANGED <<poll_pc, cluster_ids, poll_idx, running>>
       ELSE /\ poll_pc' = [poll_pc EXCEPT ![c] = "iterating"]
            /\ cluster_ids' = [cluster_ids EXCEPT ![c] = cluster_map[c]]
            /\ poll_idx' = [poll_idx EXCEPT ![c] = 1]
            /\ running' = c
    /\ UNCHANGED <<qvars, cluster_map, shutdown_evt, jvars, insp, ovars>>

\* a polling loop that goes over every cluster of the account, not over the
\* keys of the cluster_map of its client
poll_begin_all_keys(c) ==
    /\ running = "none"
    /\ poll_pc[c] = "waiting"
    /\ IF shutdown_evt[c]
       THEN /\ poll_pc' = [poll_pc EXCEPT ![c] = "stopped"]
            /\ UNCHANGED <<cluster_ids, poll_idx, running>>
       ELSE IF cluster_map[c] = <<>>
       THEN UNCHANGED <<poll_pc, cluster_ids, poll_idx, running>>
       ELSE /\ poll_pc' = [poll_pc EXCEPT ![c] = "iterating"]
            /\ cluster_ids' = [cluster_ids EXCEPT ![c] = <<ClsA, ClsB>>]
            /\ poll_idx' = [poll_idx EXCEPT ![c] = 1]
            /\ running' = c
    /\ UNCHANGED <<qvars, cluster_map, shutdown_evt, jvars, insp, ovars>>

\* _alert_polling_worker: the top of the while loop, after a sleep
poll_begin(c) ==
    /\ running = "none"
    /\ poll_pc[c] = "waiting"
    /\ IF shutdown_evt[c]
       THEN /\ poll_pc' = [poll_pc EXCEPT ![c] = "stopped"]
            /\ UNCHANGED <<cluster_ids, poll_idx, running>>
       ELSE IF cluster_map[c] = <<>>
       THEN UNCHANGED <<poll_pc, cluster_ids, poll_idx, running>>
       ELSE /\ poll_pc' = [poll_pc EXCEPT ![c] = "iterating"]
            /\ cluster_ids' = [cluster_ids EXCEPT ![c] = cluster_map[c]]
            /\ poll_idx' = [poll_idx EXCEPT ![c] = 1]
            /\ running' = c
    /\ UNCHANGED <<qvars, cluster_map, shutdown_evt, jvars, insp, ovars>>

\* a for loop that polls a key again after a hit, until its queue is empty
poll_key_with_drains(c, thread_starts) ==
    /\ running = c
    /\ poll_pc[c] = "iterating"
    /\ LET cluster_id == cluster_ids[c][poll_idx[c]] IN
       /\ consume_alerts(c, cluster_id)
       /\ IF returned' # returned
          THEN handle_cluster_alert(c, cluster_id, returned'[Len(returned')][3], thread_starts)
          ELSE UNCHANGED jvars
    /\ IF returned' # returned
       THEN UNCHANGED <<poll_idx, poll_pc, running>>
       ELSE IF poll_idx[c] < Len(cluster_ids[c])
       THEN /\ poll_idx' = [poll_idx EXCEPT ![c] = @ + 1]
            /\ UNCHANGED <<poll_pc, running>>
       ELSE /\ poll_pc' = [poll_pc EXCEPT ![c] = "waiting"]
            /\ running' = "none"
            /\ UNCHANGED poll_idx
    /\ UNCHANGED <<clock, appended, evicted, queue_status, cluster_map, shutdown_evt, cluster_ids, insp, ovars>>

\* _alert_polling_worker: one iteration of the for loop; no await in it
\* suspends. thread_starts tells whether Thread.start() of the handler succeeds.
poll_key_with(c, thread_starts) ==
    /\ running = c
    /\ poll_pc[c] = "iterating"
    /\ LET cluster_id == cluster_ids[c][poll_idx[c]] IN
       /\ consume_alerts(c, cluster_id)
       /\ IF returned' # returned
          THEN handle_cluster_alert(c, cluster_id, returned'[Len(returned')][3], thread_starts)
          ELSE UNCHANGED jvars
    /\ IF poll_idx[c] < Len(cluster_ids[c])
       THEN /\ poll_idx' = [poll_idx EXCEPT ![c] = @ + 1]
            /\ UNCHANGED <<poll_pc, running>>
       ELSE /\ poll_pc' = [poll_pc EXCEPT ![c] = "waiting"]
            /\ running' = "none"
            /\ UNCHANGED poll_idx
    /\ UNCHANGED <<clock, appended, evicted, queue_status, cluster_map, shutdown_evt, cluster_ids, insp, ovars>>

\* a polling loop that ends when the thread of an alert cannot be started
poll_key_stops_on_failure(c) ==
    /\ running = c
    /\ poll_pc[c] = "iterating"
    /\ \E thread_starts \in BOOLEAN :
       /\ LET cluster_id == cluster_ids[c][poll_idx[c]] IN
          /\ consume_alerts(c, cluster_id)
          /\ IF returned' # returned
             THEN handle_cluster_alert(c, cluster_id, returned'[Len(returned')][3], thread_starts)
             ELSE thread_starts /\ UNCHANGED jvars
       /\ IF returned' # returned /\ ~thread_starts
          THEN /\ poll_pc' = [poll_pc EXCEPT ![c] = "stopped"]
               /\ running' = "none"
               /\ UNCHANGED poll_idx
          ELSE IF poll_idx[c] < Len(cluster_ids[c])
          THEN /\ poll_idx' = [poll_idx EXCEPT ![c] = @ + 1]
               /\ UNCHANGED <<poll_pc, running>>
          ELSE /\ poll_pc' = [poll_pc EXCEPT ![c] = "waiting"]
               /\ running' = "none"
               /\ UNCHANGED poll_idx
    /\ UNCHANGED <<clock, appended, evicted, queue_status, cluster_map, shutdown_evt, cluster_ids, insp, ovars>>

\* one iteration of the for loop, whether or not the thread can be started
poll_key(c) == \E thread_starts \in BOOLEAN : poll_key_with(c, thread_starts)

\* a cleanup that sets the shutdown event from outside the event loop, also
\* while a polling cycle is running
cleanup_set_preempts(c) ==
    /\ ~shutdown_evt[c]
    /\ shutdown_evt' = [shutdown_evt EXCEPT ![c] = TRUE]
    /\ UNCHANGED <<qvars, cluster_map, poll_pc, cluster_ids, poll_idx, running, jvars, insp, ovars>>

\* cleanup up to its first await: a client whose _worker_task is still there
\* sets _shutdown_evt (line 699). It runs on the event loop of the polling
\* task, so no polling cycle is in progress.
cleanup_set(c) ==
    /\ running = "none"
    /\ ~shutdown_evt[c]
    /\ shutdown_evt' = [shutdown_evt EXCEPT ![c] = TRUE]
    /\ UNCHANGED <<qvars, cluster_map, poll_pc, cluster_ids, poll_idx, running, jvars, insp, ovars>>

\* cleanup after the wait for the worker task (lines 708-714): a polling task
\* that exists and is not done is cancelled; CancelledError reaches it at its
\* sleep and ends the loop
cleanup_cancel(c) ==
    /\ running = "none"
    /\ shutdown_evt[c]
    /\ poll_pc[c] = "waiting"
    /\ poll_pc' = [poll_pc EXCEPT ![c] = "stopped"]
    /\ UNCHANGED <<qvars, cluster_map, shutdown_evt, cluster_ids, poll_idx, running, jvars, insp, ovars>>

----------------------------------------------------------------------------
(* mcp_client: the tasks of a client under initialize and cleanup calls *)

\* initialize and cleanup calls made on one client
MaxCalls == 3

\* a client after __init__: no worker task handle, both events clear, no
\* call suspended and no task created. workers and started count the
\* create_task calls of _worker and _alert_polling_worker; starters is the
\* number of _delayed_start_alert_polling tasks in their sleep; inits and
\* cleanups are the calls suspended at their await; the others are histories.
NoTasks ==
    [worker_task |-> FALSE, ready_evt |-> FALSE, workers |-> 0,
     inits |-> 0, starters |-> 0, cleanups |-> 0, started |-> 0,
     init_calls |-> 0, cleanup_calls |-> 0, completed |-> 0,
     starter_returns |-> 0, cleanup_found_starter |-> FALSE]

\* a polling task of the client exists and is not done
polling_task_running(c) == poll_pc[c] \in {"waiting", "iterating"}

\* the frame of the calls and tasks of this section
lframe == <<qvars, cluster_map, cluster_ids, poll_idx, running, jvars, insp,
            rb, pvars, avars, extracted>>

\* initialize without the test of _worker_task
initialize_unguarded(c) ==
    /\ running = "none"
    /\ life[c].init_calls + life[c].cleanup_calls < MaxCalls
    /\ life' = [life EXCEPT ![c].init_calls = @ + 1,
                            ![c].worker_task = TRUE,
                            ![c].workers = @ + 1,
                            ![c].inits = @ + 1]
    /\ UNCHANGED <<lframe, shutdown_evt, poll_pc>>

\* initialize up to its await of _ready_evt: it returns when _worker_task is
\* set, and creates the worker task otherwise
initialize(c) ==
    /\ running = "none"
    /\ life[c].init_calls + life[c].cleanup_calls < MaxCalls
    /\ life' = IF life[c].worker_task
               THEN [life EXCEPT ![c].init_calls = @ + 1]
               ELSE [life EXCEPT ![c].init_calls = @ + 1,
                                 ![c].worker_task = TRUE,
                                 ![c].workers = @ + 1,
                                 ![c].inits = @ + 1]
    /\ UNCHANGED <<lframe, shutdown_evt, poll_pc>>

\* _worker sets _ready_evt, after the tool list (line 1017) or in its except
\* (line 1029); the event is never cleared
worker_sets_ready(c) ==
    /\ running = "none"
    /\ life[c].workers > 0
    /\ ~life[c].ready_evt
    /\ life' = [life EXCEPT ![c].ready_evt = TRUE]
    /\ UNCHANGED <<lframe, shutdown_evt, poll_pc>>

\* initialize after _ready_evt.wait(): it creates the delayed starter task
initialize_after_ready(c) ==
    /\ running = "none"
    /\ life[c].inits > 0
    /\ life[c].ready_evt
    /\ life' = [life EXCEPT ![c].inits = @ - 1, ![c].starters = @ + 1]
    /\ UNCHANGED <<lframe, shutdown_evt, poll_pc>>

\* a delayed starter that does not look at _shutdown_evt
delayed_start_alert_polling_task_unchecked(c) ==
    /\ running = "none"
    /\ life[c].starters > 0
    /\ life' = [life EXCEPT ![c].starters = @ - 1, ![c].started = @ + 1]
    /\ poll_pc' = [poll_pc EXCEPT ![c] = "waiting"]
    /\ UNCHANGED <<lframe, shutdown_evt>>

\* _delayed_start_alert_polling of one starter task, after its sleep of 5
\* seconds: it returns when _shutdown_evt is set, and creates the polling
\* task otherwise
delayed_start_alert_polling_task(c) ==
    /\ running = "none"
    /\ life[c].starters > 0
    /\ IF shutdown_evt[c]
       THEN /\ life' = [life EXCEPT ![c].starters = @ - 1, ![c].starter_returns = @ + 1]
            /\ UNCHANGED poll_pc
       ELSE /\ life' = [life EXCEPT ![c].starters = @ - 1, ![c].started = @ + 1]
            /\ poll_pc' = [poll_pc EXCEPT ![c] = "waiting"]
    /\ UNCHANGED <<lframe, shutdown_evt>>

\* cleanup up to its await of the worker task: it returns when _worker_task
\* is None, and sets _shutdown_evt otherwise
cleanup(c) ==
    /\ running = "none"
    /\ life[c].init_calls + life[c].cleanup_calls < MaxCalls
    /\ IF ~life[c].worker_task
       THEN /\ life' = [life EXCEPT ![c].cleanup_calls = @ + 1,
                                    ![c].completed = @ + 1,
                                    ![c].cleanup_found_starter = @ \/ life[c].starters > 0]
            /\ UNCHANGED shutdown_evt
       ELSE /\ life' = [life EXCEPT ![c].cleanup_calls = @ + 1,
                                    ![c].cleanups = @ + 1,
                                    ![c].cleanup_found_starter = @ \/ life[c].starters > 0]
            /\ shutdown_evt' = [shutdown_evt EXCEPT ![c] = TRUE]
    /\ UNCHANGED <<lframe, poll_pc>>

\* cleanup after wait_for(_worker_task, 20), which ends with the worker or
\* with the timeout: _worker_task becomes None, and a polling task that
\* exists and is not done is cancelled and awaited
cleanup_after_worker(c) ==
    /\ running = "none"
    /\ life[c].cleanups > 0
    /\ life' = [life EXCEPT ![c].cleanups = @ - 1,
                            ![c].completed = @ + 1,
                            ![c].worker_task = FALSE]
    /\ poll_pc' = [poll_pc EXCEPT ![c] = IF polling_task_running(c) THEN "stopped" ELSE @]
    /\ UNCHANGED <<lframe, shutdown_evt>>

----------------------------------------------------------------------------
(* mcp_client: the alert-context cache of a client *)

\* the expiry of line 405, in seconds
TTL == 1800

\* the instants at which the clock is read
Instants == {0, 1, 1799, 1800, 1801, 3600}

\* time passes
tick(t) ==
    /\ t \in Instants
    /\ t > wall
    /\ wall' = t
    /\ UNCHANGED <<qvars, cvars, jvars, insp, rb, pvars, alert_context_cache, cache_read, extracted, life>>

\* f"alert_context_{self.device_id}"
cache_key(c) == <<"alert_context_", device_id(c)>>

\* the {} that get_cached_alert_context returns when it has nothing
EmptyContext == <<>>

\* the lookups of lines 342-347 raise: request_body is not a dict, or its
\* alarmPolicyInfo is not one
cache_fields_raise(raw_alert) ==
    LET request_body == Get(WebhookDict(raw_alert), "request_body", EmptyDict) IN
    IF IsDict(request_body)
    THEN /\ DOMAIN request_body.f # {}
         /\ ~IsDict(Get(request_body, "alarmPolicyInfo", EmptyDict))
    ELSE request_body.t = "str" /\ request_body.s # <<>>

\* _cache_alert_context: the cache of client c afterwards; of context_info
\* the cluster id and the timestamp are kept. An exception of the lookups is
\* caught and leaves the cache as it is.
cache_alert_context(cache, c, cluster_id, raw_alert, now) ==
    IF cache_fields_raise(raw_alert) THEN cache
    ELSE [k \in DOMAIN cache \cup {cache_key(c)} |->
             IF k = cache_key(c)
             THEN [cluster_id |-> cluster_id, timestamp |-> now]
             ELSE cache[k]]

\* a read that still returns an entry whose age is the expiry
get_cached_alert_context_inclusive(cache, c, now) ==
    IF cache_key(c) \in DOMAIN cache
    THEN LET context == cache[cache_key(c)] IN
         IF now - context.timestamp <= TTL
         THEN [ret |-> context, cache |-> cache, age |-> now - context.timestamp]
         ELSE [ret |-> EmptyContext,
               cache |-> [k \in DOMAIN cache \ {cache_key(c)} |-> cache[k]],
               age |-> now - context.timestamp]
    ELSE [ret |-> EmptyContext, cache |-> cache, age |-> -1]

\* get_cached_alert_context: what it returns, the cache of client c
\* afterwards and the age it computed (-1 without an entry)
get_cached_alert_context(cache, c, now) ==
    IF cache_key(c) \in DOMAIN cache
    THEN LET context == cache[cache_key(c)] IN
         IF now - context.timestamp < TTL
         THEN [ret |-> context, cache |-> cache, age |-> now - context.timestamp]
         ELSE [ret |-> EmptyContext,
               cache |-> [k \in DOMAIN cache \ {cache_key(c)} |-> cache[k]],
               age |-> now - context.timestamp]
    ELSE [ret |-> EmptyContext, cache |-> cache, age |-> -1]

\* a call of _cache_alert_context by a client that has a device
cache_alert_context_call(c, cluster_id, shape) ==
    /\ device_id(c) # ""
    /\ alert_context_cache' =
          [alert_context_cache EXCEPT
              ![c] = cache_alert_context(@, c, cluster_id, AlertData(shape, wall), wall)]
    /\ UNCHANGED <<qvars, cvars, jvars, insp, rb, pvars, wall, cache_read, extracted, life>>

\* a call of get_cached_alert_context
read_cached_alert_context(c) ==
    LET got == get_cached_alert_context(alert_context_cache[c], c, wall) IN
    /\ alert_context_cache' = [alert_context_cache EXCEPT ![c] = got.cache]
    /\ cache_read' = [client |-> c, ret |-> got.ret, age |-> got.age]
    /\ UNCHANGED <<qvars, cvars, jvars, insp, rb, pvars, wall, extracted, life>>

----------------------------------------------------------------------------
(* The background alert-analysis thread of _handle_cluster_alert *)

\* what analyze_alert_with_agent returns; it catches every exception itself
MsgReport == <<"report">>
\* "缺少智能体LLM配置，无法进行智能分析" (line 615)
MsgMissingConfig == <<"MISSING", "llm config">>
\* "无法导入告警分析智能体模块" (line 623)
MsgImportError == <<"cannot import", "agent module">>
\* "智能体告警分析失败: ..." (line 659), the agent raised
MsgAgentRaised == <<"agent analysis failed", "e">>
\* a report of the agent that starts with "ERROR"
MsgErrorReport == <<"ERROR", "x">>
\* an empty report of the agent
MsgEmpty == <<>>

AnalysisResults ==
    {MsgReport, MsgMissingConfig, MsgImportError, MsgAgentRaised, MsgErrorReport, MsgEmpty}

\* the test of line 180 on analysis_result
analysis_succeeded(analysis_result) ==
    /\ analysis_result # <<>>
    /\ ~StartsWith(analysis_result, <<"ERROR">>)
    /\ ~StartsWith(analysis_result, <<"MISSING">>)

\* the notifications _execute_alert_analysis_async sends after one analysis
analysis_notifications(log, t, c, analysis_result) ==
    IF device_id(c) = "" THEN log
    ELSE IF analysis_succeeded(analysis_result)
    THEN send_direct_notification(log, t, device_id(c), analysis_result,
                                  "alert_analysis_result")
    ELSE send_direct_notification(log, t, device_id(c),
                                  <<"analysis failed">> \o analysis_result, "error")

\* the alert a job is about: the payload the handler passed to the thread
alert_of(t) == CHOOSE raw_alert \in Range(appended) : raw_alert.timestamp = t

\* the cache of a successful analysis of a client with a device: the entry
\* is written, then read back (lines 187 and 190)
analysis_cache(t, c, analysis_result) ==
    IF device_id(c) # "" /\ analysis_succeeded(analysis_result)
    THEN LET cached == cache_alert_context(alert_context_cache[c], c, jobs[t].cluster_id,
                                           alert_of(t), wall)
             got == get_cached_alert_context(cached, c, wall)
         IN [cache |-> [alert_context_cache EXCEPT ![c] = got.cache],
             read |-> [client |-> c, ret |-> got.ret, age |-> got.age]]
    ELSE [cache |-> alert_context_cache, read |-> cache_read]

\* an analysis job that runs the analysis again, after a delay, when the agent raised
execute_alert_analysis_async_retry(t, analysis_result) ==
    IF analysis_result = MsgAgentRaised /\ jobs[t].attempts = 0
    THEN /\ jobs' = [jobs EXCEPT ![t].attempts = @ + 1, ![t].raised = @ + 1,
                                 ![t].delays = @ + 1]
         /\ UNCHANGED <<notifications, alert_context_cache, cache_read>>
    ELSE /\ jobs' = [jobs EXCEPT ![t].pc = "done", ![t].attempts = @ + 1,
                                 ![t].raised = @ + (IF analysis_result = MsgAgentRaised THEN 1 ELSE 0)]
         /\ notifications' = analysis_notifications(notifications, t, jobs[t].client, analysis_result)
         /\ alert_context_cache' = analysis_cache(t, jobs[t].client, analysis_result).cache
         /\ cache_read' = analysis_cache(t, jobs[t].client, analysis_result).read

\* _execute_alert_analysis_async in its thread: one analysis, then the notification
execute_alert_analysis_async(t, analysis_result) ==
    /\ jobs' = [jobs EXCEPT ![t].pc = "done", ![t].attempts = @ + 1,
                            ![t].raised = @ + (IF analysis_result = MsgAgentRaised THEN 1 ELSE 0)]
    /\ notifications' = analysis_notifications(notifications, t, jobs[t].client, analysis_result)
    /\ alert_context_cache' = analysis_cache(t, jobs[t].client, analysis_result).cache
    /\ cache_read' = analysis_cache(t, jobs[t].client, analysis_result).read

run_async_alert_analysis_in_thread(t) ==
    /\ t \in DOMAIN jobs
    /\ jobs[t].pc = "started"
    /\ \E analysis_result \in AnalysisResults : execute_alert_analysis_async(t, analysis_result)
    /\ UNCHANGED <<qvars, cvars, insp, rb, pvars, wall, extracted, life>>

----------------------------------------------------------------------------
(* agent_mcp: the cluster-inspection job *)

\* agent_mcp.py line 98
max_retries == 2

\* "未能获取到有效的巡检结论", the no-conclusion sentinel of line 142
Sentinel == "NO_CONCLUSION"

\* what one agent.run_inspection() under wait_for does
InspectionRuns ==
    {[kind |-> "timeout", report |-> <<>>],
     [kind |-> "raise", report |-> <<>>],
     [kind |-> "return", report |-> <<>>],
     [kind |-> "return", report |-> <<" ", " ">>],
     [kind |-> "return", report |-> <<"x", Sentinel>>],
     [kind |-> "return", report |-> <<"ok">>],
     [kind |-> "return", report |-> <<" ", "ok">>]}

RECURSIVE lstrip(_)
\* str.lstrip() of a report of blanks and words
lstrip(s) == IF s # <<>> /\ Head(s) = " " THEN lstrip(Tail(s)) ELSE s

RECURSIVE rstrip(_)
rstrip(s) == IF s # <<>> /\ s[Len(s)] = " " THEN rstrip(SubSeq(s, 1, Len(s) - 1)) ELSE s

\* str.strip()
strip(s) == rstrip(lstrip(s))

\* a report test that takes a report with the sentinel for a conclusion
report_invalid_accepts_sentinel(report) == report = <<>> \/ strip(report) = <<>>

\* the report test of line 142
report_invalid(report) ==
    report = <<>> \/ strip(report) = <<>> \/ Sentinel \in Range(report)

\* how one attempt ends: "valid", "timeout" or "failed"
attempt_event(run) ==
    IF run.kind = "timeout" THEN "timeout"
    ELSE IF run.kind = "raise" THEN "failed"
    ELSE IF report_invalid(run.report) THEN "failed"
    ELSE "valid"

\* a retry test that is off by one
retry_left_short(attempt) == attempt + 1 < max_retries

\* "attempt < max_retries": another attempt follows
retry_left(attempt) == attempt < max_retries

\* the tool run_cluster_inspection: validates, then starts the thread
run_cluster_inspection(secret_ok, config_ok, device) ==
    /\ Len(insp) < MaxInspections
    /\ IF secret_ok /\ config_ok
       THEN insp' = Append(insp, [device |-> device, pc |-> "attempt", attempt |-> 0,
                                  trace |-> <<>>])
       ELSE UNCHANGED insp
    /\ UNCHANGED <<qvars, cvars, jvars, ovars>>

\* _execute_cluster_inspection_async: one pass of the retry loop, up to its
\* return, its sleep or the end of the loop
inspection_attempt(j, run) ==
    LET job == insp[j]
        ev == attempt_event(run)
        notify(kind) == IF job.device # "" THEN <<kind>> ELSE <<>>
    IN
    /\ job.pc = "attempt"
    /\ insp' = [insp EXCEPT ![j] =
          IF ev = "valid"
          THEN [job EXCEPT !.pc = "done",
                           !.trace = @ \o <<ev>> \o notify("notify_inspection_result")]
          ELSE IF retry_left(job.attempt)
          THEN [job EXCEPT !.pc = "sleeping", !.trace = @ \o <<ev, "sleep">>]
          ELSE [job EXCEPT !.pc = "done", !.trace = @ \o <<ev>> \o notify("notify_error")]]
    /\ UNCHANGED <<qvars, cvars, jvars, ovars>>

\* the end of asyncio.sleep(retry_delay): continue with the next attempt
inspection_retry(j) ==
    /\ insp[j].pc = "sleeping"
    /\ insp' = [insp EXCEPT ![j].pc = "attempt", ![j].attempt = @ + 1]
    /\ UNCHANGED <<qvars, cvars, jvars, ovars>>

----------------------------------------------------------------------------
(* agent_mcp: the rollback-then-verify job *)

\* what rollback_agent.run_application_rollback() and
\* recovery_agent.run_recovery_verification() do, the construction of the
\* agent and the import of its module included
PhaseRuns == {"return", "raise"}

\* send_device_notification of the job, made only "if device_id"
rollback_notify(device, kind) == IF device # "" THEN <<kind>> ELSE <<>>

\* the tool run_cluster_application_rollback: validates the credentials and
\* the two names, then starts the thread; AGENT_MODEL and AGENT_API_KEY are
\* read by the job only
run_cluster_application_rollback(secret_ok, names_ok, config_ok, device) ==
    /\ Len(rb) < MaxRollbacks
    /\ IF secret_ok /\ names_ok
       THEN rb' = Append(rb, [device |-> device, config_ok |-> config_ok,
                              pc |-> "phase1", trace |-> <<>>])
       ELSE UNCHANGED rb
    /\ UNCHANGED <<qvars, cvars, jvars, insp, pvars, avars, extracted, life>>

\* ClusterApplicationRollbackAgent.__init__: _validate_config raises when the
\* api_key of llm_config is empty, before anything is run
rollback_agent_outcome(config_ok, run) == IF config_ok THEN run ELSE "raise"

\* a job whose failed rollback is notified and then followed by the delay
\* and the verification
rollback_phase1_goes_on(j, run) ==
    LET job == rb[j] IN
    /\ job.pc = "phase1"
    /\ rb' = [rb EXCEPT ![j] =
          IF rollback_agent_outcome(job.config_ok, run) = "return"
          THEN [job EXCEPT !.pc = "sleeping",
                           !.trace = @ \o <<"phase1_done">>
                                       \o rollback_notify(job.device, "notify_rollback_result")]
          ELSE [job EXCEPT !.pc = "sleeping",
                           !.trace = @ \o <<"phase1_raised">>
                                       \o rollback_notify(job.device, "notify_error")]]
    /\ UNCHANGED <<qvars, cvars, jvars, insp, pvars, avars, extracted, life>>

\* _execute_cluster_application_rollback_async from its start to
\* asyncio.sleep(300), or to the end of the outer except
rollback_phase1(j, run) ==
    LET job == rb[j] IN
    /\ job.pc = "phase1"
    /\ rb' = [rb EXCEPT ![j] =
          IF rollback_agent_outcome(job.config_ok, run) = "return"
          THEN [job EXCEPT !.pc = "sleeping",
                           !.trace = @ \o <<"phase1_done">>
                                       \o rollback_notify(job.device, "notify_rollback_result")]
          ELSE [job EXCEPT !.pc = "done",
                           !.trace = @ \o <<"phase1_raised">>
                                       \o rollback_notify(job.device, "notify_error")]]
    /\ UNCHANGED <<qvars, cvars, jvars, insp, pvars, avars, extracted, life>>

\* the end of asyncio.sleep(300)
rollback_delay_over(j) ==
    /\ rb[j].pc = "sleeping"
    /\ rb' = [rb EXCEPT ![j].pc = "phase2", ![j].trace = @ \o <<"delay_over">>]
    /\ UNCHANGED <<qvars, cvars, jvars, insp, pvars, avars, extracted, life>>

\* a verification whose failure starts the job again
rollback_phase2_restarts(j, run) ==
    LET job == rb[j] IN
    /\ job.pc = "phase2"
    /\ rb' = [rb EXCEPT ![j] =
          IF run = "return"
          THEN [job EXCEPT !.pc = "done",
                           !.trace = @ \o <<"phase2_done">>
                                       \o rollback_notify(job.device, "notify_recovery_check_result")]
          ELSE [job EXCEPT !.pc = "sleeping",
                           !.trace = @ \o <<"phase2_raised">>
                                       \o rollback_notify(job.device, "notify_error")
                                       \o <<"phase1_done">>
                                       \o rollback_notify(job.device, "notify_rollback_result")]]
    /\ UNCHANGED <<qvars, cvars, jvars, insp, pvars, avars, extracted, life>>

\* the inner try of the job: the verification, its notification and the
\* inner except, up to the end of the job
rollback_phase2(j, run) ==
    LET job == rb[j] IN
    /\ job.pc = "phase2"
    /\ rb' = [rb EXCEPT ![j] =
          IF run = "return"
          THEN [job EXCEPT !.pc = "done",
                           !.trace = @ \o <<"phase2_done">>
                                       \o rollback_notify(job.device, "notify_recovery_check_result")]
          ELSE [job EXCEPT !.pc = "done",
                           !.trace = @ \o <<"phase2_raised">>
                                       \o rollback_notify(job.device, "notify_error")]]
    /\ UNCHANGED <<qvars, cvars, jvars, insp, pvars, avars, extracted, life>>

----------------------------------------------------------------------------
(* push_handler / push_message_utils: delivery to the connected devices *)

\* the connection handlers the websocket server can have, and the device id
\* of each; "k4" is a connection whose device id is empty
Conns == {"k1", "k2", "k3", "k4"}

conn_device(k) ==
    IF k = "k1" THEN "d1" ELSE IF k = "k2" THEN "d2" ELSE IF k = "k3" THEN "d3" ELSE ""

\* the order in which "for connection in ws_server.active_connections" runs
ConnOrder == <<"k1", "k2", "k3", "k4">>

\* the exclude_devices lists and the device_id values of the requests
ExcludeLists == {<<>>, <<"d2">>}
PushDevices == {"d1", "d2"}

\* what the sending of a message to a device does once it has begun
SendRuns == {"ok", "raise"}

\* the connection is in ws_server.active_connections
is_active(k) == connections[k].state # "absent"

\* "connection.websocket and connection.websocket.close_code is None"
ws_open(k) == connections[k].state = "open"

\* a device connects: its handler joins active_connections
connect(k) ==
    /\ connections[k].state = "absent"
    /\ connections' = [connections EXCEPT ![k].state = "open"]
    /\ UNCHANGED <<qvars, cvars, jvars, insp, rb, push, pushes, avars, extracted, life>>

\* the websocket of a connection closes; its handler is still registered
ws_close(k) ==
    /\ connections[k].state = "open"
    /\ connections' = [connections EXCEPT ![k].state = "closed"]
    /\ UNCHANGED <<qvars, cvars, jvars, insp, rb, push, pushes, avars, extracted, life>>

\* no request: the fields of a request record
NoPush ==
    [kind |-> "none", pc |-> "idle", device |-> "", bypass_llm |-> FALSE,
     exclude |-> <<>>, tasks |-> <<>>, awaited |-> 0,
     success_count |-> 0, total_count |-> 0, status |-> 0,
     interrupted |-> FALSE]

\* a recipient test that forgets the exclude list
eligible_ignores_exclude(k, exclude) ==
    /\ is_active(k)
    /\ conn_device(k) # ""
    /\ ws_open(k)

\* the test of the loop of broadcast_message_to_all_devices
eligible(k, exclude) ==
    /\ is_active(k)
    /\ conn_device(k) # ""
    /\ conn_device(k) \notin Range(exclude)
    /\ ws_open(k)

\* _send_message_with_error_handling: how the task of a delivery ends; the
\* except of the wrapper swallows every exception of the delivery
send_message_with_error_handling(delivery) == "returned"

\* handle_post with broadcast: broadcast_message_to_all_devices up to its
\* first "await task", or to its end when no connection is eligible
handle_post_broadcast(exclude) ==
    LET targets == SelectSeq(ConnOrder, LAMBDA k : eligible(k, exclude))
        send_tasks == [i \in 1..Len(targets) |-> [conn |-> targets[i], st |-> "created"]]
    IN
    /\ push.pc \in {"idle", "done"}
    /\ pushes < MaxPushes
    /\ pushes' = pushes + 1
    /\ push' = [NoPush EXCEPT !.kind = "broadcast",
                              !.exclude = exclude,
                              !.tasks = send_tasks,
                              !.total_count = Len(targets),
                              !.pc = IF targets = <<>> THEN "done" ELSE "awaiting",
                              !.status = IF targets = <<>> THEN 200 ELSE 0]
    /\ UNCHANGED <<qvars, cvars, jvars, insp, rb, connections, avars, extracted, life>>

\* a delivery task from its start to its first suspension in
\* send_direct_tts_message: the two checks, then the speaking state
task_start(i, tts_ready) ==
    LET k == push.tasks[i].conn IN
    /\ push.kind = "broadcast"
    /\ push.pc = "awaiting"
    /\ push.tasks[i].st = "created"
    /\ IF tts_ready /\ ws_open(k)
       THEN /\ connections' = [connections EXCEPT ![k].client_is_speaking = TRUE,
                                                  ![k].client_abort = FALSE]
            /\ push' = [push EXCEPT !.tasks[i].st = "sending"]
       ELSE /\ connections' = [connections EXCEPT ![k].client_is_speaking = FALSE]
            /\ push' = [push EXCEPT !.tasks[i].st = "raised"]
    /\ UNCHANGED <<qvars, cvars, jvars, insp, rb, pushes, avars, extracted, life>>

\* the rest of a delivery task: the message goes out, or the sending and its
\* fallback raise and the except of send_direct_tts_message resets the state
task_finish(i, run) ==
    LET k == push.tasks[i].conn IN
    /\ push.kind = "broadcast"
    /\ push.pc = "awaiting"
    /\ push.tasks[i].st = "sending"
    /\ IF run = "ok"
       THEN /\ push' = [push EXCEPT !.tasks[i].st = "delivered"]
            /\ UNCHANGED connections
       ELSE /\ push' = [push EXCEPT !.tasks[i].st = "raised"]
            /\ connections' = [connections EXCEPT ![k].client_is_speaking = FALSE]
    /\ UNCHANGED <<qvars, cvars, jvars, insp, rb, pushes, avars, extracted, life>>

\* one pass of the loop "for device_id, task in send_tasks": the awaited task
\* has ended; after the last pass the broadcast returns and handle_post
\* answers
broadcast_await ==
    LET i == push.awaited + 1 IN
    /\ push.kind = "broadcast"
    /\ push.pc = "awaiting"
    /\ push.tasks[i].st \in {"delivered", "raised"}
    /\ push' = [push EXCEPT
          !.awaited = i,
          !.success_count =
              IF send_message_with_error_handling(push.tasks[i].st) = "returned"
              THEN @ + 1 ELSE @,
          !.pc = IF i = Len(push.tasks) THEN "done" ELSE "awaiting",
          !.status = IF i = Len(push.tasks) THEN 200 ELSE 0]
    /\ UNCHANGED <<qvars, cvars, jvars, insp, rb, connections, pushes, avars, extracted, life>>

\* the None that _find_connection_by_device_id returns, among the handlers
NoConnection == "None"

\* _find_connection_by_device_id: the first registered connection of the
\* device, or None
find_connection_by_device_id(device) ==
    LET found == SelectSeq(ConnOrder, LAMBDA k : is_active(k) /\ conn_device(k) = device)
    IN IF found = <<>> THEN NoConnection ELSE found[1]

\* a lookup that answers "closed" for a device that is not connected
push_error_status_closed(target_connection) ==
    IF target_connection = NoConnection THEN 410
    ELSE IF ~ws_open(target_connection) THEN 410
    ELSE 0

\* the two error answers of the single-device mode of handle_post
push_error_status(target_connection) ==
    IF target_connection = NoConnection THEN 404
    ELSE IF ~ws_open(target_connection) THEN 410
    ELSE 0

\* handle_post without broadcast, up to its answer 404 or 410 or to the first
\* suspension of _send_message_to_device
handle_post_single(device, bypass_llm) ==
    LET target_connection == find_connection_by_device_id(device)
        status == push_error_status(target_connection)
    IN
    /\ push.pc \in {"idle", "done"}
    /\ pushes < MaxPushes
    /\ pushes' = pushes + 1
    /\ IF status # 0
       THEN /\ push' = [NoPush EXCEPT !.kind = "single", !.device = device,
                                      !.bypass_llm = bypass_llm,
                                      !.pc = "done", !.status = status]
            /\ UNCHANGED connections
       ELSE /\ push' = [NoPush EXCEPT !.kind = "single", !.device = device,
                                      !.bypass_llm = bypass_llm,
                                      !.tasks = <<[conn |-> target_connection, st |-> "created"]>>,
                                      !.interrupted =
                                          connections[target_connection].client_is_speaking,
                                      !.pc = "sending"]
            /\ connections' =
                  IF connections[target_connection].client_is_speaking
                  THEN [connections EXCEPT ![target_connection].client_abort = TRUE]
                  ELSE connections
    /\ UNCHANGED <<qvars, cvars, jvars, insp, rb, avars, extracted, life>>

\* a delivery that starts without clearing the abort flag
send_message_to_device_keeps_abort(tts_ready) ==
    LET k == push.tasks[1].conn
        begins == tts_ready /\ ws_open(k)
    IN
    /\ push.kind = "single"
    /\ push.pc = "sending"
    /\ IF ~push.bypass_llm
       THEN /\ push' = [push EXCEPT !.pc = "delivering"]
            /\ UNCHANGED connections
       ELSE IF begins
       THEN /\ push' = [push EXCEPT !.pc = "delivering"]
            /\ connections' = [connections EXCEPT ![k].client_is_speaking = TRUE]
       ELSE /\ push' = [push EXCEPT !.tasks[1].st = "raised", !.pc = "done", !.status = 500]
            /\ connections' = [connections EXCEPT ![k].client_is_speaking = FALSE]
    /\ UNCHANGED <<qvars, cvars, jvars, insp, rb, pushes, avars, extracted, life>>

\* _send_message_to_device after its sleep, up to the first suspension of the
\* delivery: with bypass_llm send_notification_message calls
\* send_direct_tts_message, which raises without a tts or an open websocket
\* and otherwise sets the speaking state; without bypass_llm startToChat
send_message_to_device(tts_ready) ==
    LET k == push.tasks[1].conn
        begins == tts_ready /\ ws_open(k)
    IN
    /\ push.kind = "single"
    /\ push.pc = "sending"
    /\ IF ~push.bypass_llm
       THEN /\ push' = [push EXCEPT !.pc = "delivering"]
            /\ UNCHANGED connections
       ELSE IF begins
       THEN /\ push' = [push EXCEPT !.pc = "delivering"]
            /\ connections' = [connections EXCEPT ![k].client_is_speaking = TRUE,
                                                  ![k].client_abort = FALSE]
       ELSE /\ push' = [push EXCEPT !.tasks[1].st = "raised", !.pc = "done", !.status = 500]
            /\ connections' = [connections EXCEPT ![k].client_is_speaking = FALSE]
    /\ UNCHANGED <<qvars, cvars, jvars, insp, rb, pushes, avars, extracted, life>>

\* the rest of the delivery and the answer of handle_post: the except of
\* send_direct_tts_message resets client_is_speaking before it raises again
send_message_to_device_returns(run) ==
    LET k == push.tasks[1].conn IN
    /\ push.kind = "single"
    /\ push.pc = "delivering"
    /\ IF run = "ok"
       THEN /\ push' = [push EXCEPT !.tasks[1].st = "delivered", !.pc = "done", !.status = 200]
            /\ UNCHANGED connections
       ELSE /\ push' = [push EXCEPT !.tasks[1].st = "raised", !.pc = "done", !.status = 500]
            /\ connections' =
                  IF push.bypass_llm
                  THEN [connections EXCEPT ![k].client_is_speaking = FALSE]
                  ELSE connections
    /\ UNCHANGED <<qvars, cvars, jvars, insp, rb, pushes, avars, extracted, life>>

----------------------------------------------------------------------------
(* Specifications *)

Init ==
    /\ alert_queues = <<>>
    /\ stats = [total_produced |-> 0, total_consumed |-> 0, clusters_with_alerts |-> {}]
    /\ clock = 0
    /\ last_call = [op |-> "none", key |-> None, ret |-> FALSE]
    /\ appended = <<>>
    /\ evicted = {}
    /\ returned = <<>>
    /\ queue_status = None
    /\ cluster_map = [c \in Clients |-> <<>>]
    /\ shutdown_evt = [c \in Clients |-> FALSE]
    /\ poll_pc = [c \in Clients |-> "not_started"]
    /\ cluster_ids = [c \in Clients |-> <<>>]
    /\ poll_idx = [c \in Clients |-> 1]
    /\ running = "none"
    /\ notifications = <<>>
    /\ jobs = <<>>
    /\ insp = <<>>
    /\ rb = <<>>
    /\ connections = [k \in Conns |-> [state |-> "absent", client_is_speaking |-> FALSE,
                                       client_abort |-> FALSE]]
    /\ push = NoPush
    /\ pushes = 0
    /\ alert_context_cache = [c \in Clients |-> <<>>]
    /\ wall = 0
    /\ extracted = [webhook_data |-> AlertData("emptyBody", 0), first |-> None, second |-> None]
    /\ cache_read = [client |-> "none", ret |-> EmptyContext, age |-> -1]
    /\ life = [c \in Clients |-> NoTasks]

\* the queue under webhook ingestion and the polling consumers, with every
\* analysis thread starting
Next ==
    \/ \E shape \in Shapes : receive_alert(shape)
    \/ \E c \in Clients : auto_fetch_cluster_list(c)
    \/ \E c \in Clients : delayed_start_alert_polling(c)
    \/ \E c \in Clients : poll_begin(c)
    \/ \E c \in Clients : poll_key_with(c, TRUE)

Spec == Init /\ [][Next]_vars

\* the alerts of one cluster, the handlers of the client that has a device
\* and their analysis threads
NextJobs ==
    \/ \E shape \in {"okA", "nullPolicyA"} : receive_alert(shape)
    \/ auto_fetch_cluster_list("c1")
    \/ delayed_start_alert_polling("c1")
    \/ poll_begin("c1")
    \/ poll_key("c1")
    \/ \E t \in 1..MaxRequests : run_async_alert_analysis_in_thread(t)

SpecJobs == Init /\ [][NextJobs]_vars

\* the polling consumers of one cluster from their start to their shutdown
NextLifecycle ==
    \/ receive_alert("okA")
    \/ \E c \in Clients : auto_fetch_cluster_list(c)
    \/ \E c \in Clients : delayed_start_alert_polling(c)
    \/ \E c \in Clients : poll_begin(c)
    \/ \E c \in Clients : poll_key_with(c, TRUE)
    \/ \E c \in Clients : cleanup_set(c)
    \/ \E c \in Clients : cleanup_cancel(c)

SpecLifecycle == Init /\ [][NextLifecycle]_vars

\* the event loop runs every task that is ready: a task whose sleep is over
\* goes on as soon as the loop is free, and a running cycle goes on to its end
FairLifecycle ==
    \A c \in Clients :
        /\ SF_vars(delayed_start_alert_polling(c))
        /\ SF_vars(poll_begin(c))
        /\ WF_vars(poll_key_with(c, TRUE))

SpecLifecycleFair == SpecLifecycle /\ FairLifecycle

\* the tasks of the clients under initialize and cleanup calls in any order
NextTasks ==
    \/ \E c \in Clients : initialize(c)
    \/ \E c \in Clients : worker_sets_ready(c)
    \/ \E c \in Clients : initialize_after_ready(c)
    \/ \E c \in Clients : delayed_start_alert_polling_task(c)
    \/ \E c \in Clients : poll_begin(c)
    \/ \E c \in Clients : cleanup(c)
    \/ \E c \in Clients : cleanup_after_worker(c)

SpecTasks == Init /\ [][NextTasks]_vars

\* the registry under webhook ingestion, the polling consumers and status calls
NextStatus ==
    \/ \E shape \in {"okA", "okB"} : receive_alert(shape)
    \/ \E c \in Clients : auto_fetch_cluster_list(c)
    \/ \E c \in Clients : delayed_start_alert_polling(c)
    \/ \E c \in Clients : poll_begin(c)
    \/ \E c \in Clients : poll_key_with(c, TRUE)
    \/ get_queue_status

SpecStatus == Init /\ [][NextStatus]_vars

\* the inspection tool and its background jobs
NextInspection ==
    \/ \E secret_ok, config_ok \in BOOLEAN, device \in {"d1", ""} :
          run_cluster_inspection(secret_ok, config_ok, device)
    \/ \E j \in 1..Len(insp), run \in InspectionRuns : inspection_attempt(j, run)
    \/ \E j \in 1..Len(insp) : inspection_retry(j)

SpecInspection == Init /\ [][NextInspection]_vars

\* the rollback tool and its background jobs
NextRollback ==
    \/ \E secret_ok, names_ok, config_ok \in BOOLEAN, device \in {"d1", ""} :
          run_cluster_application_rollback(secret_ok, names_ok, config_ok, device)
    \/ \E j \in 1..Len(rb), run \in PhaseRuns : rollback_phase1(j, run)
    \/ \E j \in 1..Len(rb) : rollback_delay_over(j)
    \/ \E j \in 1..Len(rb), run \in PhaseRuns : rollback_phase2(j, run)

SpecRollback == Init /\ [][NextRollback]_vars

\* the push endpoint, one request at a time, while devices connect and
\* their websockets close
NextPush ==
    \/ \E k \in Conns : connect(k)
    \/ \E k \in Conns : ws_close(k)
    \/ \E exclude \in ExcludeLists : handle_post_broadcast(exclude)
    \/ \E i \in 1..Len(push.tasks), tts_ready \in BOOLEAN : task_start(i, tts_ready)
    \/ \E i \in 1..Len(push.tasks), run \in SendRuns : task_finish(i, run)
    \/ broadcast_await
    \/ \E device \in PushDevices, bypass_llm \in BOOLEAN : handle_post_single(device, bypass_llm)
    \/ \E tts_ready \in BOOLEAN : send_message_to_device(tts_ready)
    \/ \E run \in SendRuns : send_message_to_device_returns(run)

SpecPush == Init /\ [][NextPush]_vars

\* the alert-context cache of the clients while time passes
NextCache ==
    \/ \E t \in Instants : tick(t)
    \/ \E c \in Clients, cluster_id \in {ClsA, ClsB}, shape \in {"okA", "nullPolicyA"} :
          cache_alert_context_call(c, cluster_id, shape)
    \/ \E c \in Clients : read_cached_alert_context(c)

SpecCache == Init /\ [][NextCache]_vars

\* direct calls of _extract_cluster_id while the queue of a cluster fills
NextExtract ==
    \/ receive_alert("okA")
    \/ \E webhook_data \in Payloads : extract_call(webhook_data)

SpecExtract == Init /\ [][NextExtract]_vars

----------------------------------------------------------------------------
(* Properties of the queue (Spec) *)

Keys == {ClsA, ClsB}

\* the alerts appended for key k, in production order
EnqueuedOf(k) ==
    LET ForK(a) == extract_cluster_id(a) = k IN SelectSeq(appended, ForK)

\* the alerts the consume_alerts(k) calls returned, in call order
ReturnedOf(k) ==
    LET ForK(r) == r[2] = k
        hits == SelectSeq(returned, ForK)
    IN [i \in 1..Len(hits) |-> hits[i][3]]

IsPrefix(s, t) == Len(s) <= Len(t) /\ SubSeq(t, 1, Len(s)) = s

\* the last n elements of q (all of q when it is shorter)
LastN(q, n) == IF Len(q) <= n THEN q ELSE SubSeq(q, Len(q) - n + 1, Len(q))

\* how often x occurs in sequence q
Count(q, x) == Cardinality({i \in 1..Len(q) : q[i] = x})

\* how often alert a has been returned by a consume_alerts call
TimesReturned(a) == Cardinality({i \in 1..Len(returned) : returned[i][3] = a})

\* how often alert a sits in some queue
TimesQueued(a) ==
    LET slots == UNION {{<<k, i>> : i \in 1..Len(alert_queues[k])} : k \in DOMAIN alert_queues}
    IN Cardinality({ki \in slots : alert_queues[ki[1]][ki[2]] = a})

\* C1: for every key whose queue never overflowed, the alerts returned by the
\* consume_alerts calls for the key are a prefix of the alerts enqueued for it,
\* oldest first.
C1_FifoPerKey ==
    \A k \in Keys :
        (\A a \in evicted : extract_cluster_id(a) # k)
            => IsPrefix(ReturnedOf(k), EnqueuedOf(k))

\* C1 witness: two alerts of one key were returned, a third was enqueued, no overflow
C1_Witness ==
    /\ evicted = {}
    /\ Len(ReturnedOf(ClsA)) = 2
    /\ Len(EnqueuedOf(ClsA)) = 3

\* C2: no queue holds more than max_queue_size alerts, and while nothing has
\* been consumed from a key its queue is exactly the max_queue_size most
\* recently produced alerts of the key, in production order: a produce on a
\* full queue drops the oldest alert and always takes the new one.
C2_BoundedEviction ==
    \A k \in DOMAIN alert_queues :
        /\ Len(alert_queues[k]) <= max_queue_size
        /\ ReturnedOf(k) = <<>>
              => alert_queues[k] = LastN(EnqueuedOf(k), max_queue_size)

\* C2 witness: max_queue_size + 1 alerts produced for one key, none consumed
C2_Witness ==
    /\ ClsA \in DOMAIN alert_queues
    /\ Len(EnqueuedOf(ClsA)) = max_queue_size + 1
    /\ ReturnedOf(ClsA) = <<>>
    /\ Len(alert_queues[ClsA]) = max_queue_size

\* C3: with several clients polling the same key, every alert is returned by
\* at most one consume_alerts call and gets at most one handler: at most one
\* acknowledgement and one analysis thread, owned by the client it was returned to.
C3_NoDoubleDelivery ==
    /\ \A i, j \in 1..Len(returned) : returned[i][3] = returned[j][3] => i = j
    /\ \A t \in DOMAIN notifications :
          Cardinality({i \in 1..Len(notifications[t]) : notifications[t][i].kind = "info"}) <= 1
    /\ \A i \in 1..Len(returned) :
          /\ returned[i][3].timestamp \in DOMAIN jobs
          /\ jobs[returned[i][3].timestamp].client = returned[i][1]

\* C3 witness: two clients have each been handed an alert of the same key
C3_Witness ==
    \E i, j \in 1..Len(returned) :
        /\ returned[i][1] = "c1"
        /\ returned[j][1] = "c2"
        /\ returned[i][2] = returned[j][2]

\* C4 as stated: every enqueued alert is dequeued exactly once, so an alert
\* that has not been returned yet is still waiting in a queue, and no alert
\* is returned twice.
C4_DequeuedExactlyOnce ==
    \A i \in 1..Len(appended) :
        /\ TimesReturned(appended[i]) <= 1
        /\ TimesReturned(appended[i]) = 0 => TimesQueued(appended[i]) = 1

\* C4 amended: every enqueued alert is returned at most once; unless an
\* overflow of its queue evicted it, it waits in the queue of its key until
\* the one consume_alerts call that returns it.
C4_DequeuedAtMostOnce ==
    \A i \in 1..Len(appended) :
        LET a == appended[i] IN
        /\ TimesReturned(a) <= 1
        /\ TimesQueued(a) + TimesReturned(a) + (IF a \in evicted THEN 1 ELSE 0) = 1
        /\ TimesQueued(a) = 1 =>
              Count(alert_queues[extract_cluster_id(a)], a) = 1

\* C4 witness: one alert was evicted by overflow, a later one was returned
C4_Witness ==
    /\ evicted # {}
    /\ returned # <<>>
    /\ \E a \in evicted : TimesReturned(a) = 0 /\ TimesQueued(a) = 0

\* C5: every alert a consume_alerts(k) call returned, and every alert queued
\* under k, has k as its extracted cluster id, and no alert sits in two
\* queues or twice in one.
C5_RoutingIsolation ==
    /\ \A i \in 1..Len(returned) : extract_cluster_id(returned[i][3]) = returned[i][2]
    /\ \A k \in DOMAIN alert_queues : \A i \in 1..Len(alert_queues[k]) :
          extract_cluster_id(alert_queues[k][i]) = k
    /\ \A i \in 1..Len(appended) : TimesQueued(appended[i]) <= 1

\* C5 witness: alerts of both keys were queued together and one of each was returned
C5_Witness ==
    /\ ReturnedOf(ClsA) # <<>>
    /\ ReturnedOf(ClsB) # <<>>
    /\ \E k \in DOMAIN alert_queues : alert_queues[k] # <<>>

\* C6: a produce_alert whose extraction yields key k puts the payload at the
\* tail of k's queue, adds 1 to total_produced, records k and returns True.
C6_ProduceSucceeds ==
    [][\A shape \in Shapes :
         LET webhook_data == AlertData(shape, clock + 1)
             k == extract_cluster_id(webhook_data)
         IN (receive_alert(shape) /\ is_json_object(RequestBody(shape)) /\ k # None)
            => /\ k \in DOMAIN alert_queues'
               /\ alert_queues'[k] # <<>>
               /\ alert_queues'[k][Len(alert_queues'[k])] = webhook_data
               /\ stats'.total_produced = stats.total_produced + 1
               /\ k \in stats'.clusters_with_alerts
               /\ last_call'.ret = TRUE]_vars

\* C7: a produce_alert whose extraction fails returns False and leaves the
\* queues, both counters and the known-key set as they were.
C7_ProduceRejects ==
    [][\A shape \in Shapes :
         LET webhook_data == AlertData(shape, clock + 1) IN
         (receive_alert(shape) /\ is_json_object(RequestBody(shape))
              /\ extract_cluster_id(webhook_data) = None)
            => /\ last_call' = [op |-> "produce_alert", key |-> None, ret |-> FALSE]
               /\ UNCHANGED <<alert_queues, stats>>]_vars

\* C7 witness: a produce_alert was rejected while alerts were queued
C7_Witness ==
    /\ last_call.op = "produce_alert"
    /\ last_call.key = None
    /\ ~last_call.ret
    /\ \E k \in DOMAIN alert_queues : alert_queues[k] # <<>>

\* C8: a consume_alerts call never waits: on a key without a queue or with an
\* empty queue it returns None at once and changes nothing, otherwise it
\* returns the oldest alert of the key, removes it and adds 1 to total_consumed.
C8_ConsumeNonBlocking ==
    /\ [](\A c \in Clients :
            (running = c /\ poll_pc[c] = "iterating") => ENABLED poll_key(c))
    /\ [][\A c \in Clients :
            poll_key(c) =>
              LET k == cluster_ids[c][poll_idx[c]] IN
              IF k \in DOMAIN alert_queues /\ alert_queues[k] # <<>>
              THEN /\ returned' = Append(returned, <<c, k, Head(alert_queues[k])>>)
                   /\ alert_queues' = [alert_queues EXCEPT ![k] = Tail(@)]
                   /\ stats' = [stats EXCEPT !.total_consumed = @ + 1]
                   /\ last_call' = [op |-> "consume_alerts", key |-> k, ret |-> TRUE]
              ELSE /\ last_call' = [op |-> "consume_alerts", key |-> k, ret |-> FALSE]
                   /\ UNCHANGED <<alert_queues, stats, returned>>]_vars

\* C8 witness: a consume_alerts call found nothing on a key that has no queue,
\* after another call had returned an alert
C8_Witness ==
    /\ last_call.op = "consume_alerts"
    /\ ~last_call.ret
    /\ last_call.key \notin DOMAIN alert_queues
    /\ returned # <<>>

----------------------------------------------------------------------------
(* Properties of the inspection job (SpecInspection) *)

AttemptEvents == {"timeout", "failed", "valid"}

\* the trace of a job whose max_retries + 1 attempts all timed out
AllTimedOutTrace ==
    [i \in 1..(2 * (max_retries + 1)) |->
        IF i = 2 * (max_retries + 1) THEN "notify_error"
        ELSE IF i % 2 = 1 THEN "timeout" ELSE "sleep"]

\* C9: an inspection job with a device id whose attempts all time out makes
\* exactly max_retries + 1 attempts, sleeps between consecutive attempts and
\* not after the last, and then sends one error notification; no job ever
\* sends more than one terminal notification.
C9_RetryBound ==
    \A j \in 1..Len(insp) :
        /\ Cardinality({i \in 1..Len(insp[j].trace) :
              insp[j].trace[i] \in {"notify_error", "notify_inspection_result"}}) <= 1
        /\ (/\ insp[j].pc = "done"
            /\ insp[j].device # ""
            /\ \A i \in 1..Len(insp[j].trace) :
                  insp[j].trace[i] \in AttemptEvents => insp[j].trace[i] = "timeout")
              => insp[j].trace = AllTimedOutTrace

\* C9 witness: a job with a device id finished after timing out every time
C9_Witness ==
    \E j \in 1..Len(insp) :
        /\ insp[j].pc = "done"
        /\ insp[j].device # ""
        /\ Count(insp[j].trace, "timeout") = max_retries + 1
        /\ Count(insp[j].trace, "notify_error") = 1

----------------------------------------------------------------------------
(* Properties of the alert-analysis job (SpecJobs) *)

\* the notifications about alert t that are not the acknowledgement
TerminalNotifications(t) ==
    IF t \in DOMAIN notifications
    THEN LET IsTerminal(n) == n.kind # "info" IN SelectSeq(notifications[t], IsTerminal)
    ELSE <<>>

C11_FailureGivesError ==
    \A t \in DOMAIN jobs :
        LET sent == TerminalNotifications(t) IN
        /\ \A i \in 1..Len(sent) :
              sent[i].kind = "alert_analysis_result" => sent[i].message = MsgReport
        /\ (jobs[t].pc = "done" /\ jobs[t].raised > 0)
              => \A i \in 1..Len(sent) : sent[i].kind = "error"

\* the acknowledgements sent about alert t
Acknowledgements(t) ==
    LET IsAck(n) == n.kind = "info" IN SelectSeq(log_of(notifications, t), IsAck)

\* C12 as stated: every alert dequeued by a client that has a device gets
\* exactly one 'info' acknowledgement when it is handled and, once its job
\* is over, exactly one terminal notification: never zero and never two.
C12_ExactlyOneAckAndTerminal ==
    \A i \in 1..Len(returned) :
        LET t == returned[i][3].timestamp IN
        device_id(returned[i][1]) # "" =>
            /\ t \in DOMAIN jobs
            /\ Len(Acknowledgements(t)) = 1
            /\ Len(TerminalNotifications(t)) <= 1
            /\ jobs[t].pc # "started" => Len(TerminalNotifications(t)) = 1

\* C13: within one alert's lifecycle the acknowledgement is sent before the
\* analysis thread of the alert is started, and every result or error
\* notification of the alert comes after the start of the thread, hence
\* after the acknowledgement.
C13_AckBeforeResult ==
    \A t \in DOMAIN jobs :
        LET log == log_of(notifications, t) IN
        \A i \in 1..Len(log) :
            /\ log[i].kind = "info" => i <= jobs[t].log_at_start
            /\ log[i].kind # "info" => i > jobs[t].log_at_start
            /\ \A j \in 1..Len(log) :
                  (log[i].kind = "info" /\ log[j].kind # "info") => i < j

\* C13 witness: two alerts were acknowledged in turn and both got their
\* acknowledgement before their result; the result of the later alert was
\* sent while the job of the earlier one was still running, so the order
\* holds per alert and not between alerts
C13_Witness ==
    \E i, j \in 1..Len(returned) :
        LET t1 == returned[i][3].timestamp
            t2 == returned[j][3].timestamp
        IN /\ i < j
           /\ Len(Acknowledgements(t1)) = 1
           /\ Len(Acknowledgements(t2)) = 1
           /\ jobs[t1].pc = "started"
           /\ jobs[t2].pc = "done"
           /\ Len(TerminalNotifications(t2)) = 1
           /\ log_of(notifications, t2)[1].kind = "info"

\* a step of the analysis job of alert t: the started job comes to its end
JobStep(t) ==
    /\ t \in DOMAIN jobs
    /\ jobs[t].pc = "started"
    /\ t \in DOMAIN jobs'
    /\ jobs'[t].pc = "done"

\* C14: the handler does not wait for the analysis: while jobs are still
\* running the polling loop can always take its next step, a dequeued alert
\* gets its own job whatever the state of the others, and a step of one job
\* changes neither the queue, nor the polling loops, nor any other job or
\* its notifications.
C14_JobsDoNotBlock ==
    /\ [](\A c \in Clients :
            (running = c /\ poll_pc[c] = "iterating") => ENABLED poll_key(c))
    /\ [](\A c \in Clients :
            (running = "none" /\ poll_pc[c] = "waiting") => ENABLED poll_begin(c))
    /\ [][\A c \in Clients :
            (poll_key(c) /\ returned' # returned) =>
                LET t == returned'[Len(returned')][3].timestamp IN
                /\ t \in DOMAIN jobs' \ DOMAIN jobs
                /\ \A u \in DOMAIN jobs : jobs'[u] = jobs[u]]_vars
    /\ [][\A t \in 1..MaxRequests :
            JobStep(t) =>
                /\ UNCHANGED <<qvars, cvars>>
                /\ \A u \in DOMAIN jobs \ {t} :
                      /\ jobs'[u] = jobs[u]
                      /\ log_of(notifications', u) = log_of(notifications, u)]_vars

\* C14 witness: the job of the first alert never finished while two later
\* alerts were dequeued, their jobs started and one of them failed
C14_Witness ==
    \E t1, t2, t3 \in DOMAIN jobs :
        /\ t1 < t2
        /\ t2 < t3
        /\ jobs[t1].pc = "started"
        /\ jobs[t2].pc = "done"
        /\ jobs[t2].raised = 1
        /\ jobs[t3].pc = "started"

\* C15: no failure while one dequeued alert is handled ends the polling
\* loop: after a malformed payload, a thread that cannot be started or a
\* failed job the loop goes on with the next key of the cycle or sleeps
\* until the next cycle, and it only stops after a shutdown.
C15_LoopSurvivesFailures ==
    /\ [](\A c \in Clients : poll_pc[c] = "stopped" => shutdown_evt[c])
    /\ [](\A c \in Clients :
            (running = "none" /\ poll_pc[c] = "waiting" /\ ~shutdown_evt[c]
                /\ \E t \in DOMAIN jobs : jobs[t].pc # "started")
              => ENABLED poll_begin(c))
    /\ [][\A c \in Clients :
            poll_key(c) =>
                IF poll_idx[c] < Len(cluster_ids[c])
                THEN /\ poll_pc'[c] = "iterating"
                     /\ running' = c
                     /\ poll_idx'[c] = poll_idx[c] + 1
                ELSE poll_pc'[c] = "waiting" /\ running' = "none"]_vars
    /\ [][\A t \in 1..MaxRequests :
            JobStep(t) => UNCHANGED <<poll_pc, running, poll_idx>>]_vars

\* C15 witness: the thread of one alert could not be started, a malformed
\* alert got no acknowledgement, a job failed, and the loop is still polling
C15_Witness ==
    \E t1, t2, t3 \in DOMAIN jobs :
        /\ jobs[t1].pc = "start_failed"
        /\ Acknowledgements(t2) = <<>>
        /\ jobs[t3].pc = "done"
        /\ jobs[t3].raised = 1
        /\ t1 < t3
        /\ poll_pc[jobs[t1].client] = "iterating"

----------------------------------------------------------------------------
(* Properties of the shutdown (SpecLifecycle, SpecLifecycleFair) *)

\* the polling loop of c is over, or was never started
LoopOver(c) == poll_pc[c] \in {"stopped", "never_started"}

\* C16: once cleanup has set the shutdown event of a client, its polling
\* loop starts no other cycle: the only step the loop still takes is the one
\* to its stopped state, and it takes it (at the end of its sleep, or when
\* cleanup cancels the task).
C16_StopsWithinOneCycle ==
    /\ [](\A c \in Clients : shutdown_evt[c] => poll_pc[c] # "iterating")
    /\ [][\A c \in Clients :
            shutdown_evt[c] => (poll_pc'[c] = poll_pc[c] \/ LoopOver(c)')]_vars
    /\ \A c \in Clients : shutdown_evt[c] ~> LoopOver(c)

\* C16 witness: a loop that had dequeued alerts is stopped after a shutdown
\* while alerts of one of its keys are still queued
C16_Witness ==
    \E c \in Clients :
        /\ shutdown_evt[c]
        /\ poll_pc[c] = "stopped"
        /\ \E i \in 1..Len(returned) : returned[i][1] = c
        /\ \E k \in Range(cluster_map[c]) : has_alert(alert_queues, k)

\* C17: after the shutdown event of a client is set no consume_alerts call
\* of this client returns an alert, so it removes nothing from any queue.
C17_NoDequeueAfterShutdown ==
    [][\A c \in Clients :
         shutdown_evt[c] =>
            /\ \A i \in 1..Len(returned') : i > Len(returned) => returned'[i][1] # c
            /\ (running' = c \/ running = c) => UNCHANGED <<alert_queues, stats>>]_vars

\* C17 witness: one client was shut down with an alert left under one of its
\* keys, and the other client, still running, dequeued an alert afterwards
C17_Witness ==
    /\ shutdown_evt["c1"]
    /\ ~shutdown_evt["c2"]
    /\ has_alert(alert_queues, ClsA)
    /\ Len(returned) >= 2
    /\ returned[1][1] = "c1"
    /\ returned[Len(returned)][1] = "c2"
    /\ poll_pc["c2"] = "iterating"

----------------------------------------------------------------------------
(* Properties of the counters and of the status (SpecStatus, Spec) *)

\* the number of alerts in all queues
TotalQueued ==
    Cardinality(UNION {{<<k, i>> : i \in 1..Len(alert_queues[k])} : k \in DOMAIN alert_queues})

\* C18: no produce_alert, consume_alerts or get_queue_status call, and no
\* other step, lowers total_produced or total_consumed or removes a key from
\* clusters_with_alerts.
C18_CountersMonotonic ==
    [][/\ stats'.total_produced >= stats.total_produced
       /\ stats'.total_consumed >= stats.total_consumed
       /\ stats.clusters_with_alerts \subseteq stats'.clusters_with_alerts]_vars

\* C18 witness: after produce, consume and status calls both keys are known
\* although the queue of one of them is empty again
C18_Witness ==
    /\ queue_status # None
    /\ stats.total_produced >= 2
    /\ stats.total_consumed >= 1
    /\ stats.clusters_with_alerts = {ClsA, ClsB}
    /\ \E k \in DOMAIN alert_queues : alert_queues[k] = <<>>
    /\ last_call.op = "produce_alert"

C20_StatusIsSnapshot ==
    /\ [](queue_status # None =>
            /\ queue_status.total_alerts_in_queues
                  = Cardinality(UNION {{<<k, i>> : i \in 1..queue_status.cluster_status[k].queue_size}
                                          : k \in DOMAIN queue_status.cluster_status})
            /\ \A k \in DOMAIN queue_status.cluster_status :
                  /\ queue_status.cluster_status[k].queue_size <= queue_status.cluster_status[k].max_size
                  /\ queue_status.cluster_status[k].max_size = max_queue_size
            /\ queue_status.stats.total_produced
                  >= queue_status.stats.total_consumed + queue_status.total_alerts_in_queues
            /\ queue_status.cluster_count = queue_status.stats.clusters_with_alerts)
    /\ [][get_queue_status =>
            /\ DOMAIN queue_status'.cluster_status = DOMAIN alert_queues
            /\ \A k \in DOMAIN alert_queues :
                  queue_status'.cluster_status[k].queue_size = Len(alert_queues[k])
            /\ queue_status'.total_alerts_in_queues = TotalQueued
            /\ queue_status'.stats.total_produced = stats.total_produced
            /\ queue_status'.stats.total_consumed = stats.total_consumed
            /\ UNCHANGED <<alert_queues, stats, appended, evicted, returned, last_call,
                           cvars, jvars>>]_vars

\* C20 witness: a status taken between produce and consume calls, with a
\* full queue under one key and an emptied queue under the other, that is
\* no longer the state of the registry
C20_Witness ==
    /\ queue_status # None
    /\ queue_status.cluster_count = 2
    /\ queue_status.total_alerts_in_queues = max_queue_size
    /\ \E k \in DOMAIN queue_status.cluster_status :
          queue_status.cluster_status[k].queue_size = max_queue_size
    /\ queue_status.stats.total_consumed >= 1
    /\ queue_status.stats.total_consumed < stats.total_consumed

----------------------------------------------------------------------------
(* Properties of the handler's failure path (SpecJobs) *)

\* C21 as stated: when the thread of a dequeued alert cannot be started in
\* _handle_cluster_alert, an error notification about the alert is sent at
\* once to the device of the client.
C21_StartFailureNotified ==
    \A t \in DOMAIN jobs :
        (jobs[t].pc = "start_failed" /\ device_id(jobs[t].client) # "")
            => \E i \in 1..Len(log_of(notifications, t)) :
                  log_of(notifications, t)[i].kind = "error"

----------------------------------------------------------------------------
(* Properties of the rollback-then-verify job (SpecRollback) *)

\* the events of a phase of the job
Phase1Events == {"phase1_done", "phase1_raised"}
Phase2Events == {"phase2_done", "phase2_raised"}

\* what a job has done before its verification: the rollback, its
\* notification when the job has a device, and the delay
BeforePhase2(device) ==
    <<"phase1_done">> \o rollback_notify(device, "notify_rollback_result") \o <<"delay_over">>

C27_ConfigCheckedBeforeStart ==
    \A j \in 1..Len(rb) : rb[j].config_ok

----------------------------------------------------------------------------
(* Properties of the push endpoint (SpecPush) *)

\* the connections a broadcast with this exclude list has to reach
EligibleAt(conns, exclude) ==
    {k \in Conns : /\ conns[k].state = "open"
                   /\ conn_device(k) # ""
                   /\ conn_device(k) \notin Range(exclude)}

\* the connections a request has a delivery for, and those it has reached
TaskConns(p) == {p.tasks[i].conn : i \in 1..Len(p.tasks)}
Delivered(p) == {p.tasks[i].conn : i \in {n \in 1..Len(p.tasks) : p.tasks[n].st = "delivered"}}

\* C23 as stated: a finished broadcast has attempted the delivery to every
\* eligible recipient, its success count is the number of recipients whose
\* delivery did not raise, its total is the number of eligible recipients and
\* no failure of a delivery leaves the broadcast call.
C23_BroadcastCounts ==
    (push.kind = "broadcast" /\ push.pc = "done") =>
        /\ \A i \in 1..Len(push.tasks) : push.tasks[i].st \in {"delivered", "raised"}
        /\ push.total_count = Len(push.tasks)
        /\ push.success_count = Cardinality(Delivered(push))
        /\ push.status = 200

\* C24: a broadcast creates a delivery for exactly the registered connections
\* that have a device id, are not excluded and have an open websocket, all of
\* them before any is started or awaited; no recipient is added later and a
\* delivery begins only on an open websocket.
C24_BroadcastFanOut ==
    [][/\ (push'.kind = "broadcast" /\ pushes' # pushes) =>
              /\ TaskConns(push') = EligibleAt(connections, push'.exclude)
              /\ Len(push'.tasks) = Cardinality(TaskConns(push'))
              /\ \A i \in 1..Len(push'.tasks) : push'.tasks[i].st = "created"
              /\ push'.awaited = 0
       /\ (push.kind = "broadcast" /\ pushes' = pushes) =>
              /\ Len(push'.tasks) = Len(push.tasks)
              /\ \A i \in 1..Len(push.tasks) :
                    /\ push'.tasks[i].conn = push.tasks[i].conn
                    /\ (push.tasks[i].st = "created" /\ push'.tasks[i].st = "sending")
                          => connections[push.tasks[i].conn].state = "open"
                    /\ push'.tasks[i].st = "delivered"
                          => push.tasks[i].st \in {"sending", "delivered"}]_vars

C24_Witness ==
    /\ push.kind = "broadcast"
    /\ push.exclude = <<"d2">>
    /\ push.awaited = 0
    /\ connections["k2"].state = "open"
    /\ connections["k4"].state = "open"
    /\ TaskConns(push) = {"k1", "k3"}
    /\ \A i \in 1..Len(push.tasks) : push.tasks[i].st = "sending"

\* C25: a push to one device is answered 404 when no registered connection
\* has the device id and 410 when the connection of the device has a closed
\* websocket; in both cases nothing is delivered and no connection changes.
C25_NotConnectedOrClosed ==
    [][(push'.kind = "single" /\ pushes' # pushes) =>
          LET ks == {k \in Conns : connections[k].state # "absent"
                                      /\ conn_device(k) = push'.device}
              refused == /\ push'.pc = "done"
                         /\ push'.tasks = <<>>
                         /\ connections' = connections
          IN /\ ks = {} => (push'.status = 404 /\ refused)
             /\ (ks # {} /\ \A k \in ks : connections[k].state = "closed")
                   => (push'.status = 410 /\ refused)
             /\ push'.status \in {404, 410} => refused]_vars

C25_Witness ==
    /\ push.kind = "single"
    /\ push.device = "d1"
    /\ push.status = 410
    /\ connections["k1"].state = "closed"
    /\ \E k \in Conns : connections[k].client_is_speaking

----------------------------------------------------------------------------
(* Properties of the alert-context cache (SpecCache) *)

\* C26: the cache of a client holds at most one entry, under the key of the
\* device of the client; a read returns the entry, and leaves it, only while
\* its age is below 1800 seconds; a read at 1800 seconds or later returns
\* the empty context and removes the entry.
C26_OneEntryWithTTL ==
    /\ [](\A c \in Clients : DOMAIN alert_context_cache[c] \subseteq {cache_key(c)})
    /\ [][\A c \in Clients :
            read_cached_alert_context(c) =>
                LET cache == alert_context_cache[c] IN
                IF cache # <<>> /\ wall - cache[cache_key(c)].timestamp < 1800
                THEN /\ cache_read'.ret = cache[cache_key(c)]
                     /\ alert_context_cache' = alert_context_cache
                ELSE /\ cache_read'.ret = <<>>
                     /\ alert_context_cache'[c] = <<>>]_vars

C26_Witness ==
    /\ cache_read.client = "c1"
    /\ cache_read.age = 1800
    /\ cache_read.ret = <<>>
    /\ alert_context_cache["c1"] = <<>>

----------------------------------------------------------------------------
(* Properties of _extract_cluster_id (SpecExtract) *)

Occurrences(s, sub) ==
    {i \in 1..Len(s) : i + Len(sub) - 1 <= Len(s) /\ SubSeq(s, i, i + Len(sub) - 1) = sub}

\* the first '#'-delimited token of s that starts with 'cls-'
FirstClsToken(s) ==
    LET tokens == Split(s, "#")
        cls == {i \in 1..Len(tokens) : Occurrences(tokens[i], ClsPrefix) \cap {1} # {}}
    IN tokens[CHOOSE i \in cls : \A j \in cls : i <= j]

\* C29: for an objId that contains '#cls-' the result is its first
\* '#'-delimited token that starts with 'cls-' ('r#cls-a#x' gives 'cls-a');
\* for an objId without '#cls-', and for a body that lacks alarmObjInfo or
\* dimensions, the result is None.
C29_FirstClsToken ==
    LET webhook_data == extracted.webhook_data IN
    /\ webhook_data.shape = "objId" =>
          extracted.first =
              IF Occurrences(webhook_data.objId, HashCls) # {}
              THEN FirstClsToken(webhook_data.objId)
              ELSE None
    /\ webhook_data.shape = "okA" => extracted.first = ClsA
    /\ webhook_data.shape \in {"noHash", "plain", "noDimensions", "emptyBody"}
          => extracted.first = None

C29_Witness ==
    /\ extracted.webhook_data.shape = "objId"
    /\ extracted.webhook_data.objId = Join(<<<<"c", "l", "s">>, ClsB, ClsA>>, "#")
    /\ extracted.first = ClsB

----------------------------------------------------------------------------
(* Properties of an attempt of the inspection job (SpecInspection) *)

\* the attempt returned a report that has a word and not the sentinel
ValidRun(run) ==
    /\ run.kind = "return"
    /\ \E i \in 1..Len(run.report) : run.report[i] # " "
    /\ \A i \in 1..Len(run.report) : run.report[i] # Sentinel

\* the attempts in a trace of the job
AttemptsIn(trace) == {i \in 1..Len(trace) : trace[i] \in AttemptEvents}

\* C30: an attempt that returns a valid report sends the one result
\* notification of the job and ends it, and nothing follows; an attempt that
\* returns an empty or a sentinel report, times out or raises is a failed
\* attempt, after which the job sleeps and tries again while one of its
\* max_retries + 1 attempts remains.
C30_ValidReportEndsJob ==
    /\ [](\A j \in 1..Len(insp) :
            LET trace == insp[j].trace IN
            /\ Count(trace, "valid") <= 1
            /\ Count(trace, "notify_inspection_result") =
                  (IF insp[j].device # "" THEN Count(trace, "valid") ELSE 0)
            /\ Count(trace, "valid") = 1 =>
                  /\ insp[j].pc = "done"
                  /\ \A i, k \in AttemptsIn(trace) : trace[i] = "valid" => k <= i
                  /\ Count(trace, "notify_error") = 0
            /\ (insp[j].pc = "done" /\ Count(trace, "valid") = 0) =>
                  Cardinality(AttemptsIn(trace)) = max_retries + 1)
    /\ [][\A j \in 1..Len(insp), run \in InspectionRuns :
            inspection_attempt(j, run) =>
                IF ValidRun(run)
                THEN /\ insp'[j].pc = "done"
                     /\ Count(insp'[j].trace, "valid") = 1
                ELSE /\ Count(insp'[j].trace, "valid") = 0
                     /\ Cardinality(AttemptsIn(insp[j].trace)) < max_retries
                           => insp'[j].pc = "sleeping"]_vars

C30_Witness ==
    \E j \in 1..Len(insp) :
        /\ insp[j].pc = "done"
        /\ insp[j].device # ""
        /\ insp[j].trace = <<"failed", "sleep", "valid", "notify_inspection_result">>

----------------------------------------------------------------------------
(* Properties of a polling cycle (Spec) *)

\* C31: a cycle begins only with a non-empty key list, at its first key and
\* without a consume; every step of a running cycle is one consume_alerts
\* call for the key at the index of the cycle, which then moves to the next
\* key or ends the cycle after the last one, so every key is polled exactly
\* once and at most one alert per key is dequeued; on a hit the handler of
\* the alert has run when the step is over; no consume is made outside a cycle.
C31_OneConsumePerKey ==
    [][/\ \A c \in Clients :
            /\ (running # c /\ running' = c) =>
                  /\ cluster_map[c] # <<>>
                  /\ cluster_ids'[c] = cluster_map[c]
                  /\ poll_idx'[c] = 1
                  /\ UNCHANGED <<alert_queues, stats, returned, last_call>>
            /\ running = c =>
                  LET key == cluster_ids[c][poll_idx[c]] IN
                  /\ last_call'.op = "consume_alerts"
                  /\ last_call'.key = key
                  /\ Len(returned') <= Len(returned) + 1
                  /\ Len(returned') = Len(returned) + 1 =>
                        /\ returned'[Len(returned')][1] = c
                        /\ returned'[Len(returned')][2] = key
                        /\ returned'[Len(returned')][3].timestamp \in DOMAIN jobs' \ DOMAIN jobs
                  /\ IF poll_idx[c] < Len(cluster_ids[c])
                     THEN running' = c /\ poll_idx'[c] = poll_idx[c] + 1
                     ELSE running' = "none"
                  /\ cluster_ids'[c] = cluster_ids[c]
       /\ running = "none" => UNCHANGED <<returned, stats.total_consumed>>]_vars

C31_Witness ==
    /\ running = "c1"
    /\ poll_idx["c1"] = 2
    /\ last_call = [op |-> "consume_alerts", key |-> ClsA, ret |-> TRUE]
    /\ returned # <<>>
    /\ returned[Len(returned)][3].timestamp \in DOMAIN jobs
    /\ has_alert(alert_queues, ClsA)

\* C32: an alert leaves its queue only by the overflow of the queue or by
\* the polling cycle of a client whose cluster_map has the key of the queue,
\* and that client is the one that handles it; every alert ever returned went
\* to a client with the key in its map.
C32_OwnKeysOnly ==
    /\ [](\A i \in 1..Len(returned) :
            returned[i][2] \in Range(cluster_map[returned[i][1]]))
    /\ [][\A k \in DOMAIN alert_queues :
            (alert_queues'[k] # alert_queues[k] /\ appended' = appended) =>
                \E c \in Clients :
                    /\ running = c
                    /\ k \in Range(cluster_map[c])
                    /\ returned' = Append(returned, <<c, k, Head(alert_queues[k])>>)
                    /\ alert_queues'[k] = Tail(alert_queues[k])
                    /\ jobs'[Head(alert_queues[k]).timestamp].client = c]_vars

C32_Witness ==
    /\ cluster_map["c1"] = <<>>
    /\ has_alert(alert_queues, ClsB)
    /\ poll_pc["c2"] = "waiting"
    /\ \E i \in 1..Len(returned) : returned[i][1] = "c2"
    /\ \A a \in Range(appended) : extract_cluster_id(a) = ClsB => a \in Range(alert_queues[ClsB])

----------------------------------------------------------------------------
(* Properties of a push to one device (SpecPush) *)

\* C33: a request for one device that finds its connection speaking sets
\* client_abort before the delivery starts, and the flag stays set until
\* then; while a direct delivery is under way client_is_speaking is TRUE and
\* client_abort is FALSE.
C33_AbortThenSpeak ==
    /\ [][\A k \in Conns :
            (/\ push'.kind = "single"
             /\ push.pc # "sending" /\ push'.pc = "sending"
             /\ push'.tasks[1].conn = k
             /\ connections[k].client_is_speaking) =>
                 /\ connections'[k].client_abort
                 /\ push'.tasks[1].st = "created"]_vars
    /\ []((push.kind = "single" /\ push.pc = "sending" /\ push.interrupted) =>
            connections[push.tasks[1].conn].client_abort)
    /\ []((push.kind = "single" /\ push.pc = "delivering" /\ push.bypass_llm) =>
            /\ connections[push.tasks[1].conn].client_is_speaking
            /\ ~connections[push.tasks[1].conn].client_abort)

C33_Witness ==
    /\ push.kind = "single"
    /\ push.pc = "delivering"
    /\ push.bypass_llm
    /\ push.interrupted
    /\ connections[push.tasks[1].conn].client_is_speaking
    /\ ~connections[push.tasks[1].conn].client_abort

----------------------------------------------------------------------------
(* Properties of the queue registry and its counters (Spec) *)

\* the alerts of a sequence or set that are routed to key k
OfKey(alerts, k) == {a \in alerts : extract_cluster_id(a) = k}

\* the alerts a consume call has returned for key k
ConsumedOf(k) == {returned[i][3] : i \in {i \in 1..Len(returned) : returned[i][2] = k}}

\* C34: the keys that have a queue are the keys in clusters_with_alerts; a
\* queue appears only in a produce_alert call, under the key extracted from
\* the appended payload, and a queue is never removed, drained or not.
C34_QueueKeysAreProducedKeys ==
    /\ [](get_all_cluster_ids(alert_queues) = stats.clusters_with_alerts)
    /\ [](\A k \in get_all_cluster_ids(alert_queues) : OfKey(Range(appended), k) # {})
    /\ [][/\ get_all_cluster_ids(alert_queues) \subseteq get_all_cluster_ids(alert_queues')
          /\ \A k \in get_all_cluster_ids(alert_queues') \ get_all_cluster_ids(alert_queues) :
                /\ last_call' = [op |-> "produce_alert", key |-> k, ret |-> last_call'.ret]
                /\ Len(appended') = Len(appended) + 1
                /\ extract_cluster_id(appended'[Len(appended')]) = k
                /\ alert_queues'[k] = <<appended'[Len(appended')]>>]_vars

C34_Witness ==
    /\ get_all_cluster_ids(alert_queues) = {ClsA, ClsB}
    /\ get_queue_size(alert_queues, ClsA) = 0
    /\ \E i \in 1..Len(returned) : returned[i][2] = ClsA
    /\ get_queue_size(alert_queues, ClsB) > 0

\* C35: total_consumed never exceeds total_produced; for each key the alerts
\* appended are the ones consumed, the ones evicted and the ones still
\* queued, each counted once; without an eviction the alerts queued number
\* total_produced - total_consumed.
C35_CountersBalance ==
    /\ stats.total_consumed <= stats.total_produced
    /\ stats.total_produced = Len(appended)
    /\ stats.total_consumed = Len(returned)
    /\ \A k \in {ClsA, ClsB} :
          LET queued == Range(queue_of(alert_queues, k)) IN
          /\ OfKey(Range(appended), k) = ConsumedOf(k) \cup OfKey(evicted, k) \cup queued
          /\ Cardinality(OfKey(Range(appended), k)) =
                Cardinality(ConsumedOf(k)) + Cardinality(OfKey(evicted, k))
                    + get_queue_size(alert_queues, k)
          /\ Cardinality(ConsumedOf(k)) =
                Cardinality({i \in 1..Len(returned) : returned[i][2] = k})
    /\ evicted = {} =>
          queue_status_of(alert_queues, stats).total_alerts_in_queues =
              stats.total_produced - stats.total_consumed

C35_Witness ==
    /\ stats.total_produced = 3
    /\ stats.total_consumed = 1
    /\ evicted = {}
    /\ get_queue_size(alert_queues, ClsA) = 1
    /\ get_queue_size(alert_queues, ClsB) = 1

\* C37: a consume_alerts call that returns None creates no queue, changes no
\* queue, no counter and no known key, and returns nothing.
C37_MissChangesNothing ==
    [][\A c \in Clients :
          (running = c /\ last_call'.op = "consume_alerts" /\ ~last_call'.ret) =>
              /\ last_call'.key = cluster_ids[c][poll_idx[c]]
              /\ UNCHANGED <<alert_queues, stats, appended, evicted, returned, jobs>>]_vars

C37_Witness ==
    /\ last_call = [op |-> "consume_alerts", key |-> ClsB, ret |-> FALSE]
    /\ get_all_cluster_ids(alert_queues) = {ClsA}
    /\ stats.clusters_with_alerts = {ClsA}
    /\ get_queue_size(alert_queues, ClsA) > 0

\* C36: a produce_alert call returns True exactly when it has appended the
\* payload: no call appends the payload, or increments total_produced, and
\* then returns False.
C36_TrueIffAppended ==
    [][\A shape \in Shapes :
          (receive_alert(shape) /\ is_json_object(RequestBody(shape))) =>
              /\ last_call'.op = "produce_alert"
              /\ last_call'.ret <=> appended' = Append(appended, AlertData(shape, clock + 1))
              /\ last_call'.ret <=> stats'.total_produced = stats.total_produced + 1]_vars

----------------------------------------------------------------------------
(* Properties of the tasks of a client (SpecTasks) *)

\* C38: once cleanup has been called on a client whose delayed starter is
\* pending, no polling task is created for the client; when a cleanup call
\* completes, and whenever _shutdown_evt is set and no cleanup call is
\* suspended, the client has no polling task that is running.
C38_NoPollingAfterCleanup ==
    /\ [][\A c \in Clients :
            /\ life[c].cleanup_found_starter => life'[c].started = life[c].started
            /\ (life'[c].cleanup_calls > life[c].cleanup_calls /\ life[c].starters > 0) =>
                  (life'[c].cleanup_found_starter /\ shutdown_evt'[c])
            /\ life'[c].completed > life[c].completed => ~polling_task_running(c)']_vars
    /\ [](\A c \in Clients :
            (shutdown_evt[c] /\ life[c].cleanups = 0) => ~polling_task_running(c))

C38_Witness ==
    /\ life["c1"].cleanup_found_starter
    /\ life["c1"].starter_returns = 1
    /\ life["c1"].starters = 0
    /\ life["c1"].completed = 1
    /\ life["c1"].started = 0
    /\ poll_pc["c1"] = "not_started"
    /\ life["c2"].started = 1
    /\ life["c2"].completed = 1
    /\ poll_pc["c2"] = "stopped"

\* C39: a client has created at most one polling task, so at most one exists
\* at any time; an initialize call made while _worker_task is set creates no
\* worker task and no delayed starter, and suspends no call.
C39_OnePollingTask ==
    /\ [](\A c \in Clients : life[c].started <= 1)
    /\ [][\A c \in Clients :
            /\ (polling_task_running(c) /\ life'[c].starters < life[c].starters) =>
                  life'[c].started = life[c].started
            /\ (life'[c].init_calls > life[c].init_calls /\ life[c].worker_task) =>
                  /\ life'[c].workers = life[c].workers
                  /\ life'[c].inits = life[c].inits
                  /\ life'[c].starters = life[c].starters
                  /\ life'[c].started = life[c].started
                  /\ life'[c].worker_task]_vars

C39_Witness ==
    /\ life["c1"].init_calls = 2
    /\ life["c1"].cleanup_calls = 0
    /\ life["c1"].workers = 1
    /\ life["c1"].started = 1
    /\ life["c1"].starters = 0
    /\ polling_task_running("c1")
    /\ life["c2"].init_calls = 2
    /\ life["c2"].cleanup_calls = 1
    /\ life["c2"].workers = 2
    /\ life["c2"].starter_returns = 2

----------------------------------------------------------------------------
(* Properties of the notifications of a rollback job (SpecRollback) *)

\* the notifications of a job, in the order they were sent
NotifyEvents == {"notify_rollback_result", "notify_recovery_check_result", "notify_error"}
Notified(tr) == SelectSeq(tr, LAMBDA e : e \in NotifyEvents)

\* C40: in a job with a device id, a rollback that raises ends the job with
\* one error notification and no verification; a rollback that succeeds is
\* notified as rollback_result, and the finished job has sent exactly two
\* notifications, the second being recovery_check_result or error.
C40_RollbackNotifications ==
    \A j \in 1..Len(rb) :
        LET tr == rb[j].trace IN
        rb[j].device # "" =>
            /\ Count(tr, "phase1_raised") > 0 =>
                  /\ rb[j].pc = "done"
                  /\ \A i \in 1..Len(tr) : tr[i] \notin Phase2Events \cup {"delay_over"}
                  /\ Notified(tr) = <<"notify_error">>
            /\ Count(tr, "phase1_done") > 0 =>
                  /\ rb[j].pc # "done" => Notified(tr) = <<"notify_rollback_result">>
                  /\ rb[j].pc = "done" =>
                        \/ Notified(tr) = <<"notify_rollback_result", "notify_recovery_check_result">>
                        \/ Notified(tr) = <<"notify_rollback_result", "notify_error">>
            /\ rb[j].pc = "done" => Count(tr, "phase1_raised") + Count(tr, "phase1_done") = 1

C40_Witness ==
    /\ Len(rb) = 2
    /\ rb[1].device = "d1" /\ rb[1].config_ok
    /\ rb[1].trace = <<"phase1_raised", "notify_error">>
    /\ rb[2].device = "d1" /\ rb[2].pc = "done"
    /\ Notified(rb[2].trace) = <<"notify_rollback_result", "notify_recovery_check_result">>

====
